---- MODULE Spec2Model ----
(***************************************************************************)
(* Model of the portfolio engine of nogo/invest:                           *)
(*   - FIFOPositionCalculator (position-calculator.ts)                     *)
(*   - PriceCache / PriceService (price-service.ts)                        *)
(*   - PortfolioAggregator (portfolio-aggregator.ts)                       *)
(* Money and quantities are JavaScript numbers in the source. The model    *)
(* trades whole shares, so quantities are integers, and it computes money  *)
(* as exact rationals <<numerator, denominator>>: it says nothing about    *)
(* floating-point rounding.                                                *)
(***************************************************************************)
EXTENDS Integers, Sequences, FiniteSets, TLC

VARIABLES
    trades,     \* the TradeExecution list handed to the calculator
    fifo,       \* the last calculateAssetPosition call: input, result, warnings, steps
    now,        \* Date.now(), in abstract clock units
    providers,  \* PriceService.providers after initializeProviders
    cache,      \* PriceCache.cache: a map from key to CacheEntry
    call,       \* the last PriceService call: request, provider attempts, response
    portfolio   \* the last PortfolioAggregator call: input, price outcome, result

vars == <<trades, fifo, now, providers, cache, call, portfolio>>
fifoVars == <<trades, fifo>>
priceVars == <<now, providers, cache, call>>

----------------------------------------------------------------------------
(* Bounds of the model *)

MaxTrades == 3
MaxQty == 2
MaxDate == 3

\* null: a record, so that it compares with position records
NULL == [null |-> TRUE]

----------------------------------------------------------------------------
(* Exact rational arithmetic standing in for JavaScript numbers *)

Abs(n) == IF n < 0 THEN -n ELSE n

RECURSIVE GCD(_, _)
GCD(a, b) == IF b = 0 THEN a ELSE GCD(b, a % b)

Norm(n, d) ==
    LET g == GCD(Abs(n), Abs(d))
        s == IF d < 0 THEN -1 ELSE 1
    IN  <<(s * n) \div g, (s * d) \div g>>

R(n) == <<n, 1>>
RAdd(a, b) == Norm(a[1] * b[2] + b[1] * a[2], a[2] * b[2])
RSub(a, b) == Norm(a[1] * b[2] - b[1] * a[2], a[2] * b[2])
RMul(a, b) == Norm(a[1] * b[1], a[2] * b[2])
RDiv(a, b) == Norm(a[1] * b[2], a[2] * b[1])
RLt(a, b) == a[1] * b[2] < b[1] * a[2]
RLe(a, b) == a[1] * b[2] <= b[1] * a[2]
RMin(a, b) == IF RLe(a, b) THEN a ELSE b
RMax(a, b) == IF RLe(a, b) THEN b ELSE a
RZero == R(0)

Min(a, b) == IF a <= b THEN a ELSE b
Max(a, b) == IF a <= b THEN b ELSE a

RECURSIVE Sum(_)
Sum(s) == IF s = <<>> THEN 0 ELSE Sum(SubSeq(s, 1, Len(s) - 1)) + s[Len(s)]

RECURSIVE RSum(_)
RSum(s) == IF s = <<>> THEN RZero ELSE RAdd(RSum(SubSeq(s, 1, Len(s) - 1)), s[Len(s)])

----------------------------------------------------------------------------
(* TradeExecution inputs *)

Directions == {"BUY", "SELL"}

\* The unit price of the asset on a trade date.
PriceOn(d) == 10 + 2 * d

\* A well-formed TradeExecution as the event parser produces it:
\* totalValue = quantity * price, totalCost = totalValue +/- (fees + commission).
Trade(id, isin, symbol, currency, dir, q, d, fees, commission) ==
    [id |-> id, isin |-> isin, symbol |-> symbol, assetType |-> "STOCK",
     direction |-> dir, quantity |-> q, price |-> PriceOn(d),
     totalValue |-> q * PriceOn(d), fees |-> fees, commission |-> commission,
     totalCost |-> IF dir = "BUY" THEN q * PriceOn(d) + fees + commission
                                  ELSE q * PriceOn(d) - fees - commission,
     currency |-> currency, tradeDate |-> d]

----------------------------------------------------------------------------
(* FIFOPositionCalculator *)

\* [...trades].sort((a, b) => a.tradeDate - b.tradeDate): a stable sort.
Unsorted(ts) == ts

\* a sort that puts a trade before those of its date already placed
RECURSIVE InsertBeforeTies(_, _)
InsertBeforeTies(sorted, t) ==
    IF sorted = <<>> THEN <<t>>
    ELSE IF sorted[Len(sorted)].tradeDate < t.tradeDate THEN Append(sorted, t)
    ELSE Append(InsertBeforeTies(SubSeq(sorted, 1, Len(sorted) - 1), t),
                sorted[Len(sorted)])

RECURSIVE InsertByDate(_, _)
InsertByDate(sorted, t) ==
    IF sorted = <<>> THEN <<t>>
    ELSE IF sorted[Len(sorted)].tradeDate <= t.tradeDate THEN Append(sorted, t)
    ELSE Append(InsertByDate(SubSeq(sorted, 1, Len(sorted) - 1), t), sorted[Len(sorted)])

RECURSIVE SortByDate(_)
SortByDate(ts) ==
    IF ts = <<>> THEN <<>>
    ELSE InsertByDate(SortByDate(SubSeq(ts, 1, Len(ts) - 1)), ts[Len(ts)])

IsBuy(t) == t.direction = "BUY"
IsSell(t) == t.direction = "SELL"

NewLot(buy) ==
    [tradeId |-> buy.id,
     originalQuantity |-> buy.quantity,
     remainingQuantity |-> buy.quantity,
     pricePerShare |-> R(buy.price),
     totalCost |-> R(buy.totalCost),
     costPerShare |-> RDiv(R(buy.totalCost), R(buy.quantity)),
     tradeDate |-> buy.tradeDate,
     currency |-> buy.currency]

WholeLot(remainingSellQuantity, oldestLot) == oldestLot.remainingQuantity

\* all that the sell still asks for, whatever the lot holds
AllAsked(remainingSellQuantity, oldestLot) == remainingSellQuantity

\* The quantity one (sell, lot) match takes.
QuantityToSell(remainingSellQuantity, oldestLot) ==
    Min(remainingSellQuantity, oldestLot.remainingQuantity)

WholeFeeGain(sell, oldestLot, quantityToSell) ==
    LET grossProceeds == R(quantityToSell * sell.price)
        costBasis == RMul(R(quantityToSell), oldestLot.costPerShare)
    IN  [sellTradeId |-> sell.id,
         buyTradeId |-> oldestLot.tradeId,
         quantity |-> quantityToSell,
         sellPrice |-> R(sell.price),
         buyPrice |-> oldestLot.costPerShare,
         grossProceeds |-> grossProceeds,
         costBasis |-> costBasis,
         realizedGain |-> RSub(RSub(grossProceeds, costBasis),
                               R(sell.fees + sell.commission)),
         sellDate |-> sell.tradeDate,
         buyDate |-> oldestLot.tradeDate,
         currency |-> sell.currency]

\* the record carries the size of the lot, not the quantity taken from it
LotSizedGain(sell, oldestLot, quantityToSell) ==
    LET grossProceeds == R(quantityToSell * sell.price)
        costBasis == RMul(R(quantityToSell), oldestLot.costPerShare)
        sellFees == RMul(R(sell.fees + sell.commission),
                         RDiv(R(quantityToSell), R(sell.quantity)))
    IN  [sellTradeId |-> sell.id,
         buyTradeId |-> oldestLot.tradeId,
         quantity |-> oldestLot.originalQuantity,
         sellPrice |-> R(sell.price),
         buyPrice |-> oldestLot.costPerShare,
         grossProceeds |-> grossProceeds,
         costBasis |-> costBasis,
         realizedGain |-> RSub(RSub(grossProceeds, costBasis), sellFees),
         sellDate |-> sell.tradeDate,
         buyDate |-> oldestLot.tradeDate,
         currency |-> sell.currency]

\* lines 159-177: the realized gain record of one (sell, lot) match
MakeRealizedGain(sell, oldestLot, quantityToSell) ==
    LET grossProceeds == R(quantityToSell * sell.price)
        costBasis == RMul(R(quantityToSell), oldestLot.costPerShare)
        sellFees == RMul(R(sell.fees + sell.commission),
                         RDiv(R(quantityToSell), R(sell.quantity)))
    IN  [sellTradeId |-> sell.id,
         buyTradeId |-> oldestLot.tradeId,
         quantity |-> quantityToSell,
         sellPrice |-> R(sell.price),
         buyPrice |-> oldestLot.costPerShare,
         grossProceeds |-> grossProceeds,
         costBasis |-> costBasis,
         realizedGain |-> RSub(RSub(grossProceeds, costBasis), sellFees),
         sellDate |-> sell.tradeDate,
         buyDate |-> oldestLot.tradeDate,
         currency |-> sell.currency]

\* The while loop of one sell. st = [lots, realizedGains, steps, rem]; steps is
\* the history of the lots array after each iteration that matched a lot.
RECURSIVE MatchSell(_, _)
MatchSell(sell, st) ==
    IF ~(st.rem > 0 /\ Len(st.lots) > 0) THEN st
    ELSE LET oldestLot == st.lots[1] IN
         IF oldestLot.remainingQuantity <= 0
         THEN MatchSell(sell, [st EXCEPT !.lots = Tail(st.lots)])
         ELSE LET quantityToSell == QuantityToSell(st.rem, oldestLot)
                  gain == MakeRealizedGain(sell, oldestLot, quantityToSell)
                  updated == [oldestLot EXCEPT !.remainingQuantity =
                                  oldestLot.remainingQuantity - quantityToSell]
                  lots1 == <<updated>> \o Tail(st.lots)
                  lots2 == IF updated.remainingQuantity <= 0
                           THEN Tail(lots1) ELSE lots1
              IN  MatchSell(sell,
                     [lots |-> lots2,
                      realizedGains |-> Append(st.realizedGains, gain),
                      steps |-> Append(st.steps, lots1),
                      rem |-> st.rem - quantityToSell])

\* The for loop over the sells. acc = [lots, realizedGains, steps, warnings].
RECURSIVE ProcessSells(_, _, _)
ProcessSells(sells, firstTrade, acc) ==
    IF sells = <<>> THEN acc
    ELSE LET sell == Head(sells)
             m == MatchSell(sell, [lots |-> acc.lots,
                                   realizedGains |-> acc.realizedGains,
                                   steps |-> acc.steps,
                                   rem |-> sell.quantity])
             warnings == IF m.rem > 0
                         THEN Append(acc.warnings,
                                     [symbol |-> firstTrade.symbol,
                                      quantity |-> m.rem])
                         ELSE acc.warnings
         IN  ProcessSells(Tail(sells), firstTrade,
                [lots |-> m.lots, realizedGains |-> m.realizedGains,
                 steps |-> m.steps, warnings |-> warnings])

Unclamped(totalBought, totalSold) == totalBought - totalSold

\* Math.max(0, totalBought - totalSold)
CurrentQuantity(totalBought, totalSold) ==
    Max(0, totalBought - totalSold)

\* the average taken over all that was ever bought
AverageOverBought(p, currentQuantity) ==
    p @@ [currentQuantity |-> currentQuantity,
          averageCostPerShare |-> IF currentQuantity > 0
                                  THEN RDiv(p.totalCostBasis, R(p.totalBought))
                                  ELSE RZero]

\* currentQuantity and averageCostPerShare (lines 201, 208) added to the rest.
AddQuantity(p, currentQuantity) ==
    p @@ [currentQuantity |-> currentQuantity,
          averageCostPerShare |-> IF currentQuantity > 0
                                  THEN RDiv(p.totalCostBasis, R(currentQuantity))
                                  ELSE RZero]

WithQuantity(p) == AddQuantity(p, CurrentQuantity(p.totalBought, p.totalSold))

\* The position metrics (lines 198-210) and the returned object (lines 212-237),
\* from the sorted trades and the outcome of the sell loop.
PositionMetrics(sortedTrades, buys, sells, lots, realizedGains) ==
    LET firstTrade == sortedTrades[1]
        HasRemaining(lot) == lot.remainingQuantity > 0
    IN  WithQuantity(
            [isin |-> firstTrade.isin,
             symbol |-> firstTrade.symbol,
             assetType |-> firstTrade.assetType,
             currency |-> firstTrade.currency,
             totalBought |-> Sum([i \in 1..Len(buys) |-> buys[i].quantity]),
             totalSold |-> Sum([i \in 1..Len(sells) |-> sells[i].quantity]),
             totalCostBasis |->
                 RSum([i \in 1..Len(lots) |->
                         RMul(R(lots[i].remainingQuantity), lots[i].costPerShare)]),
             totalBuyValue |-> RSum([i \in 1..Len(buys) |-> R(buys[i].totalValue)]),
             totalSellValue |-> RSum([i \in 1..Len(sells) |-> R(sells[i].totalValue)]),
             totalFeesAndCommissions |->
                 RSum([i \in 1..Len(sortedTrades) |->
                         R(sortedTrades[i].fees + sortedTrades[i].commission)]),
             totalRealizedGain |->
                 RSum([i \in 1..Len(realizedGains) |-> realizedGains[i].realizedGain]),
             realizedGains |-> realizedGains,
             remainingLots |-> SelectSeq(lots, HasRemaining),
             firstTradeDate |-> firstTrade.tradeDate,
             lastTradeDate |-> sortedTrades[Len(sortedTrades)].tradeDate,
             tradeCount |-> Len(sortedTrades)])

Aggregate(sortedTrades, buys, sells, done) ==
    [position |-> PositionMetrics(sortedTrades, buys, sells, done.lots,
                                  done.realizedGains),
     warnings |-> done.warnings,
     steps |-> done.steps]

\* Lines 131-196: the lots of the buys, then the sells matched against them.
MatchTrades(sortedTrades, buys, sells) ==
    Aggregate(sortedTrades, buys, sells,
        ProcessSells(sells, sortedTrades[1],
            [lots |-> [i \in 1..Len(buys) |-> NewLot(buys[i])], realizedGains |-> <<>>,
             steps |-> <<>>, warnings |-> <<>>]))

SplitTrades(sortedTrades) ==
    MatchTrades(sortedTrades, SelectSeq(sortedTrades, IsBuy),
                SelectSeq(sortedTrades, IsSell))

\* calculateAssetPosition: [position, warnings, steps]; position is NULL for [].
CalculateAssetPosition(ts) ==
    IF Len(ts) = 0 THEN [position |-> NULL, warnings |-> <<>>, steps |-> <<>>]
    ELSE SplitTrades(SortByDate(ts))

----------------------------------------------------------------------------
(* PriceCache *)

\* The default TTL of a cache entry (15 minutes), in clock units.
DefaultTTL == 2

EmptyCache == [k \in {} |-> NULL]

\* generateKey: `${identifierType}:${identifier}:${currency}`, kept as a triple
GenerateKey(identifier, identifierType, currency) ==
    <<identifierType, identifier, currency>>

\* the expiry test of PriceCache.get: new Date() > entry.expiresAt
Expired(entry, t) == t > entry.expiresAt

CacheSetNoTTL(c, key, data, t) ==
    [k \in DOMAIN c \cup {key} |->
        IF k = key THEN [data |-> data, timestamp |-> t, expiresAt |-> t]
        ELSE c[k]]

\* an entry already there is kept
KeepFirst(c, key, data, t) ==
    IF key \in DOMAIN c THEN c
    ELSE [k \in DOMAIN c \cup {key} |->
             IF k = key THEN [data |-> data, timestamp |-> t,
                              expiresAt |-> t + DefaultTTL]
             ELSE c[k]]

\* PriceCache.set with the default TTL
CacheSet(c, key, data, t) ==
    [k \in DOMAIN c \cup {key} |->
        IF k = key THEN [data |-> data, timestamp |-> t, expiresAt |-> t + DefaultTTL]
        ELSE c[k]]

\* the whole map emptied
DropAll(c, key) == [k \in {} |-> NULL]

CacheDelete(c, key) == [k \in DOMAIN c \ {key} |-> c[k]]

\* PriceCache.get: the data returned (NULL on a miss) ...
CacheGetData(c, key, t) ==
    IF key \notin DOMAIN c THEN NULL
    ELSE IF Expired(c[key], t) THEN NULL
    ELSE c[key].data

\* ... and the cache it leaves: an expired entry is deleted
CacheAfterGet(c, key, t) ==
    IF key \in DOMAIN c /\ Expired(c[key], t) THEN CacheDelete(c, key) ELSE c

----------------------------------------------------------------------------
(* Price providers: external collaborators behind the PriceProvider interface *)

\* The providers the service is built with: the mock provider the source ships
\* (priority 999, the fallback) and the provider of its tests (priority 1).
ProviderSet ==
    {[name |-> "TestProvider", priority |-> 1],
     [name |-> "mock", priority |-> 999]}

\* The price a provider quotes: each provider its own, so that data tells its source.
QuoteOf(provider) == 100 + provider.priority

\* What a provider does during one service call, [mode, known]:
\*   UNHEALTHY      healthCheck() resolves to false
\*   HEALTH_THROWS  healthCheck() rejects
\*   THROWS         the price lookup rejects
\*   RATE_LIMITED   the price lookup returns success: false, code RATE_LIMITED
\*   SERVE          the provider has data for the keys in known and no other:
\*                  a single lookup of another key returns NOT_FOUND,
\*                  a batch lookup returns the known ones
FailureModes == {"UNHEALTHY", "HEALTH_THROWS", "THROWS", "RATE_LIMITED"}

\* the behaviours that differ for a call about the given keys
BehavioursOver(keys) ==
    [mode : FailureModes, known : {{}}] \cup [mode : {"SERVE"}, known : SUBSET keys]

\* the day's change a provider reports with its quote; 0 is "no change known"
ChangeOf(provider) == IF provider.name = "mock" THEN 3 ELSE 0

PriceDataOf(provider, request, t) ==
    [identifier |-> request.identifier,
     identifierType |-> request.identifierType,
     currency |-> request.currency,
     price |-> QuoteOf(provider),
     change |-> ChangeOf(provider),
     timestamp |-> t]

KeyOfData(d) == GenerateKey(d.identifier, d.identifierType, d.currency)

\* provider.getCurrentPrice(request)
ProviderGetCurrentPrice(provider, behaviour, request, t) ==
    IF behaviour.mode = "RATE_LIMITED"
    THEN [success |-> FALSE, code |-> "RATE_LIMITED"]
    ELSE IF GenerateKey(request.identifier, request.identifierType, request.currency)
               \in behaviour.known
    THEN [success |-> TRUE, data |-> PriceDataOf(provider, request, t)]
    ELSE [success |-> FALSE, code |-> "NOT_FOUND"]

\* provider.getBatchPrices({requests})
ProviderGetBatchPrices(provider, behaviour, requests, t) ==
    IF behaviour.mode = "RATE_LIMITED"
    THEN [success |-> FALSE, code |-> "RATE_LIMITED"]
    ELSE LET Known(r) == GenerateKey(r.identifier, r.identifierType, r.currency)
                             \in behaviour.known
             known == SelectSeq(requests, Known)
         IN  [success |-> TRUE,
              data |-> [i \in 1..Len(known) |-> PriceDataOf(provider, known[i], t)]]

----------------------------------------------------------------------------
(* PriceService *)

ConfigOrder(ps) == ps

\* this.providers.sort((a, b) => a.priority - b.priority): a stable sort
RECURSIVE InsertByPriority(_, _)
InsertByPriority(sorted, p) ==
    IF sorted = <<>> THEN <<p>>
    ELSE IF sorted[Len(sorted)].priority <= p.priority THEN Append(sorted, p)
    ELSE Append(InsertByPriority(SubSeq(sorted, 1, Len(sorted) - 1), p),
                sorted[Len(sorted)])

RECURSIVE SortByPriority(_)
SortByPriority(ps) ==
    IF ps = <<>> THEN <<>>
    ELSE InsertByPriority(SortByPriority(SubSeq(ps, 1, Len(ps) - 1)), ps[Len(ps)])

\* initializeProviders
InitializeProviders(configured) == SortByPriority(configured)

\* request.currency || 'USD'; an absent currency is ""
DefaultCurrency(currency) == IF currency = "" THEN "USD" ELSE currency

WithCurrency(request) ==
    [request EXCEPT !.currency = DefaultCurrency(request.currency)]

RequestKey(request) ==
    GenerateKey(request.identifier, request.identifierType,
                DefaultCurrency(request.currency))

\* the price lookup made without asking for the provider's health
TryUnchecked(provider, behaviour, request, t) ==
    IF behaviour.mode \in {"HEALTH_THROWS", "UNHEALTHY", "THROWS"}
    THEN [response |-> [success |-> FALSE, code |-> "API_ERROR"],
          attempts |-> <<[provider |-> provider.name, method |-> "healthCheck",
                          outcome |-> IF behaviour.mode = "HEALTH_THROWS" THEN "throws"
                                      ELSE IF behaviour.mode = "UNHEALTHY" THEN "false"
                                      ELSE "true"],
                         [provider |-> provider.name, method |-> "getCurrentPrice",
                          outcome |-> "throws"]>>]
    ELSE [response |-> ProviderGetCurrentPrice(provider, behaviour, request, t),
          attempts |-> <<[provider |-> provider.name, method |-> "healthCheck",
                          outcome |-> "true"],
                         [provider |-> provider.name, method |-> "getCurrentPrice",
                          outcome |-> IF ProviderGetCurrentPrice(provider, behaviour,
                                                                request, t).success
                                      THEN "data"
                                      ELSE ProviderGetCurrentPrice(provider, behaviour,
                                                                   request, t).code]>>]

\* tryProvider: [response, attempts]; attempts lists the provider calls made
TryProvider(provider, behaviour, request, t) ==
    IF behaviour.mode = "HEALTH_THROWS"
    THEN [response |-> [success |-> FALSE, code |-> "API_ERROR"],
          attempts |-> <<[provider |-> provider.name, method |-> "healthCheck",
                          outcome |-> "throws"]>>]
    ELSE IF behaviour.mode = "UNHEALTHY"
    THEN [response |-> [success |-> FALSE, code |-> "API_ERROR"],
          attempts |-> <<[provider |-> provider.name, method |-> "healthCheck",
                          outcome |-> "false"]>>]
    ELSE IF behaviour.mode = "THROWS"
    THEN [response |-> [success |-> FALSE, code |-> "API_ERROR"],
          attempts |-> <<[provider |-> provider.name, method |-> "healthCheck",
                          outcome |-> "true"],
                         [provider |-> provider.name, method |-> "getCurrentPrice",
                          outcome |-> "throws"]>>]
    ELSE LET r == ProviderGetCurrentPrice(provider, behaviour, request, t)
         IN  [response |-> r,
              attempts |-> <<[provider |-> provider.name, method |-> "healthCheck",
                              outcome |-> "true"],
                             [provider |-> provider.name, method |-> "getCurrentPrice",
                              outcome |-> IF r.success THEN "data" ELSE r.code]>>]

ApiError == [success |-> FALSE, code |-> "API_ERROR"]

\* the response when no provider could fetch the price
NotFound == [success |-> FALSE, code |-> "NOT_FOUND"]

\* the provider loop of getCurrentPrice, from provider i on
RECURSIVE TryProviders(_, _, _, _, _, _, _)
TryProviders(ps, i, behaviours, request, t, c, attempts) ==
    IF i > Len(ps)
    THEN [response |-> NotFound, cache |-> c, attempts |-> attempts]
    ELSE LET r == TryProvider(ps[i], behaviours[ps[i].name], request, t)
         IN  IF r.response.success
             THEN [response |-> r.response,
                   cache |-> CacheSet(c, RequestKey(request), r.response.data, t),
                   attempts |-> attempts \o r.attempts]
             ELSE TryProviders(ps, i + 1, behaviours, request, t, c,
                               attempts \o r.attempts)

\* getCurrentPrice: [response, cache, attempts]
GetCurrentPrice(ps, behaviours, request, c, t) ==
    IF CacheGetData(c, RequestKey(request), t) # NULL
    THEN [response |-> [success |-> TRUE,
                        data |-> CacheGetData(c, RequestKey(request), t)],
          cache |-> CacheAfterGet(c, RequestKey(request), t),
          attempts |-> <<>>]
    ELSE TryProviders(ps, 1, behaviours, WithCurrency(request), t,
                      CacheAfterGet(c, RequestKey(request), t), <<>>)

----------------------------------------------------------------------------
(* The calculator driven over every trade list of one asset *)

\* The fees and the commission of the trades: a flat amount each.
FlatFee == 1
FlatCommission == 1

AssetTrade(id, dir, q, d) ==
    Trade(id, "US0378331005", "AAPL", "USD", dir, q, d, FlatFee, FlatCommission)

NoCall == [called |-> FALSE, input |-> <<>>, position |-> NULL,
           warnings |-> <<>>, steps |-> <<>>]

\* the rearrangements of n positions
Orderings(n) ==
    {f \in [1..n -> 1..n] : \A i, j \in 1..n : i # j => f[i] # f[j]}

Permuted(in, f) == [i \in 1..Len(in) |-> in[f[i]]]

DistinctDates(in) ==
    \A i, j \in 1..Len(in) : i # j => in[i].tradeDate # in[j].tradeDate

\* what a caller sees of one calculateAssetPosition call
OutputOf(r) == [position |-> r.position, warnings |-> r.warnings]

\* the outputs of calculateAssetPosition for the list in every other order,
\* asked for when no two trades share a date
Reordered(ts) ==
    IF DistinctDates(ts)
    THEN {OutputOf(CalculateAssetPosition(Permuted(ts, f))) : f \in Orderings(Len(ts))}
    ELSE {}

\* Between two calls the service is idle; last sums up the call before:
\* the key of a successful getCurrentPrice, the number of provider price
\* lookups it made and how many of them returned data; NoLast after anything
\* else.
NoLast == [key |-> <<>>, lookups |-> 0, resolved |-> 0]
Idle(last) == [op |-> "none", last |-> last]
NoPriceCall == Idle(NoLast)
NoPortfolioCall == [op |-> "none"]

InitFIFO ==
    /\ trades = <<>>
    /\ fifo = NoCall
    /\ now = 0
    /\ providers = <<>>
    /\ cache = <<>>
    /\ call = NoPriceCall
    /\ portfolio = NoPortfolioCall

\* One more trade execution arrives from the event log.
RecordTrade ==
    /\ Len(trades) < MaxTrades
    /\ \E dir \in Directions, q \in 1..MaxQty, d \in 1..MaxDate :
          trades' = Append(trades, AssetTrade(Len(trades) + 1, dir, q, d))
    /\ fifo' = NoCall
    /\ UNCHANGED <<priceVars, portfolio>>

\* calculator.calculateAssetPosition(trades)
CalcAssetPosition ==
    /\ ~fifo.called
    /\ fifo' = [called |-> TRUE, input |-> trades] @@ CalculateAssetPosition(trades)
    /\ UNCHANGED <<trades, priceVars, portfolio>>

NextFIFO == RecordTrade \/ CalcAssetPosition

SpecFIFO == InitFIFO /\ [][NextFIFO]_vars

\* One more trade execution arrives, on a date of its own.
RecordDatedTrade ==
    /\ Len(trades) < MaxTrades
    /\ \E dir \in Directions, q \in 1..MaxQty, d \in 1..MaxDate :
          /\ \A i \in 1..Len(trades) : trades[i].tradeDate # d
          /\ trades' = Append(trades, AssetTrade(Len(trades) + 1, dir, q, d))
    /\ fifo' = NoCall
    /\ UNCHANGED <<priceVars, portfolio>>

\* calculator.calculateAssetPosition(trades), then the same call once more
\* and the call for the list in every other order
CalcEveryOrder ==
    /\ ~fifo.called
    /\ fifo' = [called |-> TRUE, input |-> trades,
                again |-> OutputOf(CalculateAssetPosition(trades)),
                permuted |-> Reordered(trades)]
                @@ CalculateAssetPosition(trades)
    /\ UNCHANGED <<trades, priceVars, portfolio>>

NextOrder == RecordDatedTrade \/ CalcEveryOrder

SpecOrder == InitFIFO /\ [][NextOrder]_vars

\* The cache scan of getBatchPrices, from request i on:
\* [results, failedRequests, cache]
RECURSIVE BatchScan(_, _, _, _, _, _)
BatchScan(requests, i, t, results, failedRequests, c) ==
    IF i > Len(requests)
    THEN [results |-> results, failedRequests |-> failedRequests, cache |-> c]
    ELSE LET key == RequestKey(requests[i])
             cached == CacheGetData(c, key, t)
         IN  IF cached # NULL
             THEN BatchScan(requests, i + 1, t, Append(results, cached),
                            failedRequests, CacheAfterGet(c, key, t))
             ELSE BatchScan(requests, i + 1, t, results,
                            Append(failedRequests, WithCurrency(requests[i])),
                            CacheAfterGet(c, key, t))

\* the cache left as it was
NothingCached(c, data, t) == c

\* this.cache.set(...) for each priceData of a batch result
RECURSIVE CacheSetAll(_, _, _)
CacheSetAll(c, data, t) ==
    IF data = <<>> THEN c
    ELSE CacheSetAll(CacheSet(c, KeyOfData(Head(data)), Head(data), t), Tail(data), t)

\* every request kept, whatever the batch result resolved
KeepAll(failedRequests, data) == failedRequests

\* the requests a batch result leaves unresolved
RemainingFailed(failedRequests, data) ==
    LET successfulIdentifiers == {KeyOfData(data[i]) : i \in 1..Len(data)}
        Unresolved(req) ==
            GenerateKey(req.identifier, req.identifierType, req.currency)
                \notin successfulIdentifiers
    IN  SelectSeq(failedRequests, Unresolved)

\* one provider call of getBatchPrices: the requests sent, how it ended
\* ("true", "false", "throws", "data" or an error code) and the data returned
BatchAttempt(provider, method, requests, outcome, data) ==
    [provider |-> provider.name, method |-> method, requests |-> requests,
     outcome |-> outcome, data |-> data]

\* the provider loop of getBatchPrices, from provider i on:
\* st = [results, failedRequests, cache, attempts]
RECURSIVE BatchProviders(_, _, _, _, _)
BatchProviders(ps, i, behaviours, t, st) ==
    IF i > Len(ps) \/ Len(st.failedRequests) = 0 THEN st
    ELSE LET provider == ps[i]
             b == behaviours[provider.name]
             health == BatchAttempt(provider, "healthCheck", <<>>,
                           IF b.mode = "HEALTH_THROWS" THEN "throws"
                           ELSE IF b.mode = "UNHEALTHY" THEN "false" ELSE "true",
                           <<>>)
         IN  IF b.mode \in {"HEALTH_THROWS", "UNHEALTHY"}
             THEN BatchProviders(ps, i + 1, behaviours, t,
                      [st EXCEPT !.attempts = Append(@, health)])
             ELSE IF b.mode = "THROWS"
             THEN BatchProviders(ps, i + 1, behaviours, t,
                      [st EXCEPT !.attempts = @ \o
                          <<health, BatchAttempt(provider, "getBatchPrices",
                                                 st.failedRequests, "throws", <<>>)>>])
             ELSE LET r == ProviderGetBatchPrices(provider, b, st.failedRequests, t)
                  IN  IF r.success
                      THEN BatchProviders(ps, i + 1, behaviours, t,
                              [results |-> st.results \o r.data,
                               failedRequests |->
                                   RemainingFailed(st.failedRequests, r.data),
                               cache |-> CacheSetAll(st.cache, r.data, t),
                               attempts |-> st.attempts \o
                                   <<health, BatchAttempt(provider, "getBatchPrices",
                                                          st.failedRequests, "data",
                                                          r.data)>>])
                      ELSE BatchProviders(ps, i + 1, behaviours, t,
                              [st EXCEPT !.attempts = @ \o
                                  <<health, BatchAttempt(provider, "getBatchPrices",
                                                         st.failedRequests, r.code,
                                                         <<>>)>>])

OnlyIfResolved(results) == [success |-> results # <<>>, data |-> results]

\* the response of getBatchPrices: always a success
BatchResponse(results) == [success |-> TRUE, data |-> results]

BatchFinish(st) ==
    [response |-> BatchResponse(st.results), cache |-> st.cache,
     attempts |-> st.attempts]

BatchAfterScan(ps, behaviours, t, scan) ==
    BatchFinish(BatchProviders(ps, 1, behaviours, t,
        [results |-> scan.results, failedRequests |-> scan.failedRequests,
         cache |-> scan.cache, attempts |-> <<>>]))

\* getBatchPrices: [response, cache, attempts]
GetBatchPrices(ps, behaviours, requests, c, t) ==
    BatchAfterScan(ps, behaviours, t, BatchScan(requests, 1, t, <<>>, <<>>, c))

----------------------------------------------------------------------------
(* The price service driven over requests, provider behaviours and time *)

MaxTime == 3
MaxBatch == 2

Request(identifierType, identifier, currency) ==
    [identifier |-> identifier, identifierType |-> identifierType,
     currency |-> currency]

\* the requests made of the service; the second one names no currency
Requests ==
    {Request("SYMBOL", "AAPL", "USD"),
     Request("SYMBOL", "AAPL", ""),
     Request("SYMBOL", "AAPL", "EUR")}

Keys == {RequestKey(r) : r \in Requests}

BatchRequests ==
    UNION {[1..n -> Requests] : n \in 0..MaxBatch}

\* every order in which the providers array can be written
Configurations ==
    {cfg \in [1..Cardinality(ProviderSet) -> ProviderSet] :
        \A i, j \in DOMAIN cfg : i # j => cfg[i] # cfg[j]}

ProviderNames == {p.name : p \in ProviderSet}

InitPrice ==
    /\ trades = <<>>
    /\ fifo = NoCall
    /\ now = 0
    /\ \E cfg \in Configurations : providers = InitializeProviders(cfg)
    /\ cache = EmptyCache
    /\ call = NoPriceCall
    /\ portfolio = NoPortfolioCall

\* time passes between two calls
Tick ==
    /\ call.op = "none"
    /\ now < MaxTime
    /\ now' = now + 1
    /\ UNCHANGED <<fifoVars, providers, cache, call, portfolio>>

\* priceService.getCurrentPrice(request)
CallGetCurrentPrice ==
    /\ call.op = "none"
    /\ \E request \in Requests :
       \E behaviours \in [ProviderNames -> BehavioursOver({RequestKey(request)})] :
          LET r == GetCurrentPrice(providers, behaviours, request, cache, now)
          IN  /\ cache' = r.cache
              /\ call' = [op |-> "getCurrentPrice", request |-> request,
                          time |-> now, cacheBefore |-> cache,
                          attempts |-> r.attempts, response |-> r.response,
                          last |-> call.last]
    /\ UNCHANGED <<fifoVars, now, providers, portfolio>>

\* priceService.getBatchPrices({requests})
CallGetBatchPrices ==
    /\ call.op = "none"
    /\ \E requests \in BatchRequests :
       \E behaviours \in [ProviderNames ->
                BehavioursOver({RequestKey(requests[i]) : i \in 1..Len(requests)})] :
          LET r == GetBatchPrices(providers, behaviours, requests, cache, now)
          IN  /\ cache' = r.cache
              /\ call' = [op |-> "getBatchPrices", requests |-> requests,
                          time |-> now, cacheBefore |-> cache,
                          attempts |-> r.attempts, response |-> r.response,
                          last |-> call.last]
    /\ UNCHANGED <<fifoVars, now, providers, portfolio>>

\* priceService.clearCache()
ClearCache ==
    /\ call.op = "none"
    /\ cache # EmptyCache
    /\ cache' = EmptyCache
    /\ call' = Idle(NoLast)
    /\ UNCHANGED <<fifoVars, now, providers, portfolio>>

PriceLookups(attempts) ==
    Len(SelectSeq(attempts, LAMBDA a : a.method = "getCurrentPrice"))

ResolvedLookups(attempts) ==
    Len(SelectSeq(attempts, LAMBDA a : a.method = "getCurrentPrice"
                                       /\ a.outcome = "data"))

\* the caller takes the response; the service is idle again
Deliver ==
    /\ call.op # "none"
    /\ call' = Idle(IF call.op = "getCurrentPrice" /\ call.response.success
                    THEN [key |-> RequestKey(call.request),
                          lookups |-> PriceLookups(call.attempts),
                          resolved |-> ResolvedLookups(call.attempts)]
                    ELSE NoLast)
    /\ UNCHANGED <<fifoVars, now, providers, cache, portfolio>>

NextPrice == Tick \/ CallGetCurrentPrice \/ ClearCache \/ Deliver

NextBatch == Tick \/ CallGetBatchPrices \/ ClearCache \/ Deliver

SpecBatch == InitPrice /\ [][NextBatch]_vars

SpecPrice == InitPrice /\ [][NextPrice]_vars

----------------------------------------------------------------------------
(* Reference notions the properties are stated with, computed from the     *)
(* input list alone. A trade's id is its index in the input list.          *)

RECURSIVE SumOver(_, _)
SumOver(S, f) ==
    IF S = {} THEN 0
    ELSE LET x == CHOOSE y \in S : TRUE IN f[x] + SumOver(S \ {x}, f)

\* a is before b in chronological order, input order breaking ties
Older(a, b) ==
    \/ a.tradeDate < b.tradeDate
    \/ a.tradeDate = b.tradeDate /\ a.id < b.id

BuyIds(in) == {i \in 1..Len(in) : in[i].direction = "BUY"}
SellIds(in) == {i \in 1..Len(in) : in[i].direction = "SELL"}
QtyOf(in) == [i \in 1..Len(in) |-> in[i].quantity]
InputBought(in) == SumOver(BuyIds(in), QtyOf(in))
InputSold(in) == SumOver(SellIds(in), QtyOf(in))
Max0(n) == IF n < 0 THEN 0 ELSE n

\* the quantity matched against lot id by the realized gains before index p
MatchedBefore(gains, p, id) ==
    Sum([q \in 1..(p - 1) |->
            IF gains[q].buyTradeId = id THEN gains[q].quantity ELSE 0])

Computed == fifo.called /\ fifo.position # NULL

----------------------------------------------------------------------------
\* C1: lots are consumed strictly oldest first. Whenever a realized gain is
\* matched against a lot, every older lot has already been matched in full;
\* after every matching step, and in the result, every lot but the oldest one
\* left still has its original quantity.
C1_FifoOrder ==
    Computed =>
        LET in == fifo.input
            gains == fifo.position.realizedGains
            lots == fifo.position.remainingLots
        IN  /\ \A p \in 1..Len(gains) : \A j \in BuyIds(in) :
                  Older(in[j], in[gains[p].buyTradeId])
                      => MatchedBefore(gains, p, j) = in[j].quantity
            /\ \A p \in 1..Len(fifo.steps) : \A k \in 2..Len(fifo.steps[p]) :
                  fifo.steps[p][k].remainingQuantity = fifo.steps[p][k].originalQuantity
            /\ \A k \in 2..Len(lots) :
                  /\ lots[k].remainingQuantity = lots[k].originalQuantity
                  /\ Older(in[lots[k - 1].tradeId], in[lots[k].tradeId])

\* a sell consumed two lots, and the older lot is not the first of the input
C1_Witness ==
    /\ Computed
    /\ Len(fifo.position.realizedGains) >= 2
    /\ fifo.position.realizedGains[1].buyTradeId > fifo.position.realizedGains[2].buyTradeId
    /\ Len(fifo.position.remainingLots) >= 1

\* C2: without a short-sell attempt the remaining quantities of the remaining
\* lots sum to max(0, totalBought - totalSold), and so does currentQuantity.
C2_Conservation ==
    (Computed /\ fifo.warnings = <<>>) =>
        LET in == fifo.input
            lots == fifo.position.remainingLots
            expected == Max0(InputBought(in) - InputSold(in))
        IN  /\ Sum([k \in 1..Len(lots) |-> lots[k].remainingQuantity]) = expected
            /\ fifo.position.currentQuantity = expected
            /\ fifo.position.totalBought = InputBought(in)
            /\ fifo.position.totalSold = InputSold(in)

\* a sell took part of a lot and left the rest of it
C2_Witness ==
    /\ Computed /\ fifo.warnings = <<>>
    /\ Cardinality(SellIds(fifo.input)) >= 1
    /\ Len(fifo.position.remainingLots) >= 1
    /\ fifo.position.remainingLots[1].remainingQuantity
           # fifo.position.remainingLots[1].originalQuantity

\* C3: every realized gain matches a sell against a lot bought no later than
\* the sell.
C3_SellAfterBuy ==
    Computed =>
        \A p \in 1..Len(fifo.position.realizedGains) :
            fifo.position.realizedGains[p].buyDate
                <= fifo.position.realizedGains[p].sellDate

\* the shortfall of sell i: what it asks beyond what the lots still hold once
\* the sells before it are served
SoldBefore(in, i) ==
    SumOver({j \in SellIds(in) : Older(in[j], in[i])}, QtyOf(in))
Shortfall(in, i) ==
    Max0(in[i].quantity - Max0(InputBought(in) - SoldBefore(in, i)))
ShortSells(in) == {i \in SellIds(in) : Shortfall(in, i) > 0}

\* C4: a sell that exceeds the remaining lots does not fail the calculation;
\* each such sell emits one warning carrying its unmatched quantity, no other
\* warning is emitted, and currentQuantity is 0, never negative.
C4_ShortClamped ==
    fifo.called =>
        LET in == fifo.input
            short == ShortSells(in)
        IN  /\ in # <<>> => fifo.position # NULL
            /\ Len(fifo.warnings) = Cardinality(short)
            /\ \A i \in short :
                  LET n == Cardinality({j \in short : Older(in[j], in[i])}) + 1
                  IN  fifo.warnings[n] = [symbol |-> SortByDate(in)[1].symbol,
                                          quantity |-> Shortfall(in, i)]
            /\ short # {} => fifo.position.currentQuantity = 0
            /\ Computed => fifo.position.currentQuantity >= 0

\* BUY 1 then SELL 2: one warning for 1 share
C4_Witness ==
    /\ Computed
    /\ Len(fifo.input) = 2
    /\ fifo.input[1].direction = "BUY" /\ fifo.input[1].quantity = 1
    /\ fifo.input[2].direction = "SELL" /\ fifo.input[2].quantity = 2
    /\ fifo.input[1].tradeDate < fifo.input[2].tradeDate
    /\ fifo.warnings = <<[symbol |-> "AAPL", quantity |-> 1]>>
    /\ fifo.position.currentQuantity = 0

----------------------------------------------------------------------------
(* FIFOPositionCalculator.calculatePortfolioPositions *)

\* the keys of tradesByAsset, in the order the Map received them
RECURSIVE IsinsOf(_)
IsinsOf(allTrades) ==
    IF allTrades = <<>> THEN <<>>
    ELSE LET front == IsinsOf(SubSeq(allTrades, 1, Len(allTrades) - 1))
             key == allTrades[Len(allTrades)].isin
         IN  IF \E i \in 1..Len(front) : front[i] = key THEN front
             ELSE Append(front, key)

\* every trade, whatever its ISIN
EveryTrade(allTrades, isin) == allTrades

TradesOf(allTrades, isin) == SelectSeq(allTrades, LAMBDA t : t.isin = isin)

\* the positions left in the order of the grouping
AsGrouped(ps) == ps

\* positions.sort((a, b) => b.currentQuantity - a.currentQuantity): stable
RECURSIVE InsertByQuantity(_, _)
InsertByQuantity(sorted, p) ==
    IF sorted = <<>> THEN <<p>>
    ELSE IF sorted[Len(sorted)].currentQuantity >= p.currentQuantity
    THEN Append(sorted, p)
    ELSE Append(InsertByQuantity(SubSeq(sorted, 1, Len(sorted) - 1), p),
                sorted[Len(sorted)])

RECURSIVE SortByQuantity(_)
SortByQuantity(ps) ==
    IF ps = <<>> THEN <<>>
    ELSE InsertByQuantity(SortByQuantity(SubSeq(ps, 1, Len(ps) - 1)), ps[Len(ps)])

\* every asset that was traded, held or not
KeepEvery(position) == position # NULL

IsOpen(position) == position # NULL /\ position.currentQuantity > 0

PositionsOf(allTrades, isins) ==
    [i \in 1..Len(isins) |->
        CalculateAssetPosition(TradesOf(allTrades, isins[i])).position]

CalculatePortfolioPositions(allTrades) ==
    SortByQuantity(SelectSeq(PositionsOf(allTrades, IsinsOf(allTrades)), IsOpen))

----------------------------------------------------------------------------
(* PriceService.enrichPortfolioPositions *)

\* an absent optional string
NoText == ""
PriceUnavailable == "Price data not available"

\* an optional value that is present
Defined(v) == [value |-> v]

PortfolioPositionOf(position) ==
    [isin |-> position.isin, symbol |-> position.symbol,
     quantity |-> position.currentQuantity, currency |-> position.currency]

\* position.isin || position.symbol, position.isin ? 'ISIN' : 'SYMBOL'
PositionRequest(position) ==
    [identifier |-> IF position.isin # "" THEN position.isin ELSE position.symbol,
     identifierType |-> IF position.isin # "" THEN "ISIN" ELSE "SYMBOL",
     currency |-> position.currency]

\* `${identifierType}:${identifier}:${currency}`
ServiceKeyOfData(d) == <<d.identifierType, d.identifier, d.currency>>

ServiceKeyOfPosition(position) ==
    <<IF position.isin # "" THEN "ISIN" ELSE "SYMBOL",
      IF position.isin # "" THEN position.isin ELSE position.symbol,
      position.currency>>

\* the Map filled by priceMap.set for each item in turn: the last one stays
ServicePriceMap(priceResult) ==
    IF priceResult.success
    THEN LET data == priceResult.data
             Last(k) == CHOOSE i \in 1..Len(data) :
                           /\ ServiceKeyOfData(data[i]) = k
                           /\ \A j \in (i + 1)..Len(data) : ServiceKeyOfData(data[j]) # k
         IN  [k \in {ServiceKeyOfData(data[i]) : i \in 1..Len(data)} |-> data[Last(k)]]
    ELSE <<>>

ServiceEnriched(position, priceMap) ==
    IF ServiceKeyOfPosition(position) \in DOMAIN priceMap
    THEN LET priceData == priceMap[ServiceKeyOfPosition(position)]
         IN  position @@ [priceData |-> priceData,
                          currentValue |-> Defined(position.quantity * priceData.price),
                          error |-> NoText]
    ELSE position @@ [priceData |-> NULL, currentValue |-> NULL,
                      error |-> PriceUnavailable]

EnrichFrom(positions, priceMap, batch) ==
    [positions |-> [i \in 1..Len(positions) |->
                       ServiceEnriched(positions[i], priceMap)],
     priceResult |-> batch.response,
     cache |-> batch.cache]

EnrichWith(positions, batch) ==
    EnrichFrom(positions, ServicePriceMap(batch.response), batch)

\* enrichPortfolioPositions: [positions, priceResult, cache]
EnrichPortfolioPositions(ps, behaviours, positions, c, t) ==
    EnrichWith(positions,
        GetBatchPrices(ps, behaviours,
                       [i \in 1..Len(positions) |-> PositionRequest(positions[i])],
                       c, t))

----------------------------------------------------------------------------
(* PortfolioAggregator *)

\* `${enriched.isin || enriched.symbol}:${enriched.currency}`
AggregatorKeyOfEnriched(enriched) ==
    <<IF enriched.isin # "" THEN enriched.isin ELSE enriched.symbol,
      enriched.currency>>

\* `${position.isin}:${position.currency}`
AggregatorKeyOfPosition(position) == <<position.isin, position.currency>>

\* priceMap.set(key, enriched.priceData) for each enriched position with data
PriceMapOf(priced) ==
    LET Last(k) == CHOOSE i \in 1..Len(priced) :
                      /\ AggregatorKeyOfEnriched(priced[i]) = k
                      /\ \A j \in (i + 1)..Len(priced) :
                            AggregatorKeyOfEnriched(priced[j]) # k
    IN  [k \in {AggregatorKeyOfEnriched(priced[i]) : i \in 1..Len(priced)} |->
            priced[Last(k)].priceData]

AggregatorPriceMap(enrichedPositions) ==
    PriceMapOf(SelectSeq(enrichedPositions, LAMBDA e : e.priceData # NULL))

\* the quotient taken whatever the denominator: 0 / 0 is not a number
NotANumber == <<0, 0>>
Unguarded(part, whole) ==
    IF whole[1] = 0 THEN NotANumber ELSE RMul(RDiv(part, whole), R(100))

\* lines 119-121, 125-127, 167-172, 177-179 and 209: denominator > 0 ? ... : 0
Percent(part, whole) ==
    IF RLt(RZero, whole) THEN RMul(RDiv(part, whole), R(100)) ELSE RZero

\* lines 118-127 and 135-148, once price and market value are known
WithGains(position, priceData, currentPrice, currentMarketValue, unrealizedGain) ==
    position @@
    [currentPrice |-> currentPrice,
     priceData |-> priceData,
     currentMarketValue |-> currentMarketValue,
     unrealizedGain |-> unrealizedGain,
     unrealizedGainPercent |-> Percent(unrealizedGain, position.totalCostBasis),
     totalGain |-> RAdd(position.totalRealizedGain, unrealizedGain),
     totalGainPercent |-> Percent(RAdd(position.totalRealizedGain, unrealizedGain),
                                  position.totalBuyValue),
     dailyChange |-> IF priceData # NULL /\ priceData.change # 0
                        /\ position.currentQuantity # 0
                     THEN Defined(R(priceData.change * position.currentQuantity))
                     ELSE NULL,
     priceLastUpdated |-> IF priceData # NULL THEN Defined(priceData.timestamp)
                          ELSE NULL,
     priceError |-> IF priceData # NULL THEN NoText ELSE PriceUnavailable]

\* lines 115-118
WithPrice(position, priceData, currentPrice) ==
    WithGains(position, priceData, currentPrice,
              RMul(R(position.currentQuantity), currentPrice),
              RSub(RMul(R(position.currentQuantity), currentPrice),
                   position.totalCostBasis))

\* lines 112-115: priceData?.price || 0
Combine(position, priceMap) ==
    IF AggregatorKeyOfPosition(position) \in DOMAIN priceMap
    THEN WithPrice(position, priceMap[AggregatorKeyOfPosition(position)],
                   R(priceMap[AggregatorKeyOfPosition(position)].price))
    ELSE WithPrice(position, NULL, RZero)

CombineAll(positions, priceMap, looked) ==
    [positions |-> [i \in 1..Len(positions) |-> Combine(positions[i], priceMap)],
     requested |-> looked.positions,
     priceResult |-> looked.priceResult,
     cache |-> looked.cache]

Combined(positions, looked) ==
    CombineAll(positions, AggregatorPriceMap(looked.positions), looked)

EnrichAll(ps, behaviours, positions, c, t) ==
    IF Len(positions) = 0
    THEN [positions |-> <<>>, requested |-> <<>>, priceResult |-> NULL, cache |-> c]
    ELSE Combined(positions,
             EnrichPortfolioPositions(ps, behaviours,
                 [i \in 1..Len(positions) |-> PortfolioPositionOf(positions[i])],
                 c, t))

\* getEnrichedPositions: [positions, requested, priceResult, cache]
GetEnrichedPositions(ps, behaviours, allTrades, c, t) ==
    EnrichAll(ps, behaviours, CalculatePortfolioPositions(allTrades), c, t)

\* the keys of currencyMap, in the order the Map received them
RECURSIVE CurrenciesOf(_)
CurrenciesOf(enrichedPositions) ==
    IF enrichedPositions = <<>> THEN <<>>
    ELSE LET front == CurrenciesOf(SubSeq(enrichedPositions, 1,
                                          Len(enrichedPositions) - 1))
             currency == enrichedPositions[Len(enrichedPositions)].currency
         IN  IF \E i \in 1..Len(front) : front[i] = currency THEN front
             ELSE Append(front, currency)

\* every bucket takes every position
BreakdownOfAll(enrichedPositions, currency, totalMarketValue) ==
    LET marketValue == RSum([i \in 1..Len(enrichedPositions) |->
                                enrichedPositions[i].currentMarketValue])
    IN  [currency |-> currency,
         positions |-> Len(enrichedPositions),
         invested |-> RSum([i \in 1..Len(enrichedPositions) |->
                              enrichedPositions[i].totalCostBasis]),
         marketValue |-> marketValue,
         percentage |-> Percent(marketValue, totalMarketValue)]

Breakdown(enrichedPositions, currency, totalMarketValue) ==
    LET mine == SelectSeq(enrichedPositions, LAMBDA p : p.currency = currency)
        marketValue == RSum([i \in 1..Len(mine) |-> mine[i].currentMarketValue])
    IN  [currency |-> currency,
         positions |-> Len(mine),
         invested |-> RSum([i \in 1..Len(mine) |-> mine[i].totalCostBasis]),
         marketValue |-> marketValue,
         percentage |-> Percent(marketValue, totalMarketValue)]

CurrencyBreakdown(enrichedPositions, currencies, totalMarketValue) ==
    [i \in 1..Len(currencies) |->
        Breakdown(enrichedPositions, currencies[i], totalMarketValue)]

\* the latest of the positions' price timestamps, if any
PricesLastUpdated(enrichedPositions) ==
    LET stamps == {enrichedPositions[i].priceLastUpdated.value :
                      i \in {j \in 1..Len(enrichedPositions) :
                                enrichedPositions[j].priceLastUpdated # NULL}}
    IN  IF stamps = {} THEN NULL
        ELSE Defined(CHOOSE m \in stamps : \A o \in stamps : o <= m)

\* lines 161-186, the totals of the summary
SummaryTotals(ep) ==
    [totalInvested |-> RSum([i \in 1..Len(ep) |-> ep[i].totalCostBasis]),
     totalMarketValue |-> RSum([i \in 1..Len(ep) |-> ep[i].currentMarketValue]),
     totalRealizedGain |-> RSum([i \in 1..Len(ep) |-> ep[i].totalRealizedGain]),
     totalUnrealizedGain |-> RSum([i \in 1..Len(ep) |-> ep[i].unrealizedGain]),
     totalDailyChange |->
         RSum([i \in 1..Len(ep) |->
                 IF ep[i].dailyChange # NULL THEN ep[i].dailyChange.value ELSE RZero]),
     positionCount |-> Len(ep),
     totalShares |-> Sum([i \in 1..Len(ep) |-> ep[i].currentQuantity]),
     totalFeesAndCommissions |->
         RSum([i \in 1..Len(ep) |-> ep[i].totalFeesAndCommissions]),
     positionsWithoutPrices |->
         Len(SelectSeq(ep, LAMBDA p : p.priceData = NULL))]

\* lines 165-184 and 203-235, from the totals
SummaryOf(ep, s, t) ==
    s @@
    [totalGain |-> RAdd(s.totalRealizedGain, s.totalUnrealizedGain),
     totalUnrealizedGainPercent |-> Percent(s.totalUnrealizedGain, s.totalInvested),
     totalGainPercent |-> Percent(RAdd(s.totalRealizedGain, s.totalUnrealizedGain),
                                  s.totalInvested),
     totalDailyChangePercent |->
         Percent(s.totalDailyChange, RSub(s.totalMarketValue, s.totalDailyChange)),
     averagePositionSize |-> IF s.positionCount > 0
                             THEN RDiv(s.totalMarketValue, R(s.positionCount))
                             ELSE RZero,
     currencyBreakdown |-> CurrencyBreakdown(ep, CurrenciesOf(ep), s.totalMarketValue),
     lastUpdated |-> t,
     pricesLastUpdated |-> PricesLastUpdated(ep)]

Summarised(enriched, t) ==
    enriched @@ [summary |-> SummaryOf(enriched.positions,
                                       SummaryTotals(enriched.positions), t)]

\* getPortfolioSummary: [summary, positions, requested, priceResult, cache]
GetPortfolioSummary(ps, behaviours, allTrades, c, t) ==
    Summarised(GetEnrichedPositions(ps, behaviours, allTrades, c, t), t)

----------------------------------------------------------------------------
(* The aggregator driven over the trades of several assets *)

MaxAssetTrades == 2

\* the assets traded; the last one was recorded without an ISIN
Assets ==
    {[isin |-> "US0378331005", symbol |-> "AAPL", currency |-> "USD"],
     [isin |-> "DE0007164600", symbol |-> "SAP", currency |-> "EUR"],
     [isin |-> "", symbol |-> "BTC", currency |-> "USD"]}

\* One more trade execution of some asset arrives, later than those before.
RecordAssetTrade ==
    /\ portfolio.op = "none"
    /\ Len(trades) < MaxAssetTrades
    /\ \E asset \in Assets, dir \in Directions, q \in 1..MaxQty :
          trades' = Append(trades,
                        Trade(Len(trades) + 1, asset.isin, asset.symbol,
                              asset.currency, dir, q, Len(trades) + 1,
                              FlatFee, FlatCommission))
    /\ UNCHANGED <<fifo, priceVars, portfolio>>

\* a provider is down, or up and knowing some of the keys asked for
Outage == [mode |-> "THROWS", known |-> {}]
ProvidersFor(positions) ==
    [ProviderNames ->
        {Outage} \cup
        [mode : {"SERVE"},
         known : SUBSET {ServiceKeyOfPosition(positions[i]) : i \in 1..Len(positions)}]]

\* the call returns r: the cache is as the lookups left it
Returns(op, r, summary) ==
    /\ cache' = r.cache
    /\ portfolio' = [op |-> op, positions |-> r.positions,
                     requested |-> r.requested, priceResult |-> r.priceResult,
                     summary |-> summary]

ReturnsSummary(r) == Returns("getPortfolioSummary", r, r.summary)

\* getEnrichedPositions from line 89 on, the positions being calculated
EnrichedPositionsOf(positions) ==
    \E behaviours \in ProvidersFor(positions) :
        Returns("getEnrichedPositions",
                EnrichAll(providers, behaviours, positions, cache, now), NULL)

\* portfolioAggregator.getEnrichedPositions(trades)
CallGetEnrichedPositions ==
    /\ portfolio.op = "none"
    /\ EnrichedPositionsOf(CalculatePortfolioPositions(trades))
    /\ UNCHANGED <<fifoVars, now, providers, call>>

PortfolioSummaryOf(positions) ==
    \E behaviours \in ProvidersFor(positions) :
        ReturnsSummary(
            Summarised(EnrichAll(providers, behaviours, positions, cache, now), now))

\* portfolioAggregator.getPortfolioSummary(trades)
CallGetPortfolioSummary ==
    /\ portfolio.op = "none"
    /\ PortfolioSummaryOf(CalculatePortfolioPositions(trades))
    /\ UNCHANGED <<fifoVars, now, providers, call>>

\* the caller takes the result; the aggregator is idle again
Return ==
    /\ portfolio.op # "none"
    /\ portfolio' = NoPortfolioCall
    /\ UNCHANGED <<fifoVars, priceVars>>

NextPortfolio ==
    RecordAssetTrade \/ CallGetEnrichedPositions \/ CallGetPortfolioSummary \/ Return

SpecPortfolio == InitPrice /\ [][NextPortfolio]_vars

----------------------------------------------------------------------------
(* Reference notions for the price service, from the call record alone *)

Single == call.op = "getCurrentPrice"
Batch == call.op = "getBatchPrices"

\* the key a request is cached under: its type, identifier and currency, USD
\* when it names none
KeyOfRequest(r) ==
    <<r.identifierType, r.identifier, IF r.currency = "" THEN "USD" ELSE r.currency>>

CallKey == KeyOfRequest(call.request)

\* the entry the call found for its key was written at t0 = entry.timestamp
HadEntry == Single /\ CallKey \in DOMAIN call.cacheBefore
EntryBefore == call.cacheBefore[CallKey]

PriorityOf(name) == (CHOOSE p \in ProviderSet : p.name = name).priority

\* C5: an entry written at t0 is served from the cache, with no provider call,
\* by every lookup at a time in [t0, t0 + TTL), and a lookup at or after
\* t0 + TTL finds no entry and goes to the providers.
C5_TtlWindow ==
    HadEntry =>
        /\ call.time < EntryBefore.timestamp + DefaultTTL
              => /\ call.attempts = <<>>
                 /\ call.response = [success |-> TRUE, data |-> EntryBefore.data]
        /\ call.time >= EntryBefore.timestamp + DefaultTTL
              => call.attempts # <<>>

\* the call missed the cache: no entry for its key, or one past its expiry
Missed ==
    /\ Single
    /\ \/ CallKey \notin DOMAIN call.cacheBefore
       \/ call.time > call.cacheBefore[CallKey].expiresAt

\* the providers the call tried, in the order it tried them
Tried == SelectSeq(call.attempts, LAMBDA a : a.method = "healthCheck")
Failed(a) == a.outcome # "data"

\* C6: on a cache miss the providers are tried one at a time in ascending
\* priority number, none skipped; each failure of whatever kind leads to the
\* next provider; the first success ends the call with that provider's data.
C6_FallbackOrder ==
    Missed =>
        LET n == Len(call.attempts)
        IN  /\ Len(Tried) >= 1
            /\ \A i \in 1..Len(Tried) : \A p \in ProviderSet :
                  p.priority < PriorityOf(Tried[i].provider)
                      => \E j \in 1..(i - 1) : Tried[j].provider = p.name
            /\ \A i, j \in 1..Len(Tried) :
                  i < j => PriorityOf(Tried[i].provider) < PriorityOf(Tried[j].provider)
            /\ \A i \in 1..n :
                  call.attempts[i].method = "getCurrentPrice"
                      => /\ i > 1
                         /\ call.attempts[i - 1] =
                                [provider |-> call.attempts[i].provider,
                                 method |-> "healthCheck", outcome |-> "true"]
            /\ \A i \in 1..(n - 1) : Failed(call.attempts[i])
            /\ call.response.success
                  => /\ call.attempts[n].method = "getCurrentPrice"
                     /\ call.attempts[n].outcome = "data"
                     /\ call.response.data.price =
                            100 + PriorityOf(call.attempts[n].provider)
                     /\ call.response.data.timestamp = call.time
            /\ ~call.response.success
                  => /\ Failed(call.attempts[n])
                     /\ {Tried[i].provider : i \in 1..Len(Tried)} = ProviderNames

\* the first provider failed and the second one answered
C6_Witness ==
    /\ Missed
    /\ call.response.success
    /\ Len(Tried) = 2
    /\ Tried[1].provider = "TestProvider"
    /\ Tried[2].provider = "mock"
    /\ call.response.data.price = 100 + 999

\* the call follows a successful getCurrentPrice for the same key that went
\* to the providers, within the TTL of the entry that call wrote
SecondWithinTtl ==
    /\ Single
    /\ call.last.key = CallKey
    /\ call.last.lookups >= 1
    /\ call.time < EntryBefore.timestamp + DefaultTTL

\* C7, as stated: the two calls cause exactly one provider price lookup in
\* total; the second returns the cached data and the cache does not grow.
C7_OneLookupInTotal ==
    SecondWithinTtl =>
        /\ call.last.lookups + PriceLookups(call.attempts) = 1
        /\ call.response = [success |-> TRUE, data |-> EntryBefore.data]
        /\ Cardinality(DOMAIN cache) = Cardinality(DOMAIN call.cacheBefore)

\* C7, amended: the second call makes no provider call at all and returns the
\* cached data, the cache does not grow, and of the provider price lookups of
\* the two calls exactly one returned data.
C7_SecondCallCached ==
    SecondWithinTtl =>
        /\ call.attempts = <<>>
        /\ call.last.resolved + ResolvedLookups(call.attempts) = 1
        /\ call.response = [success |-> TRUE, data |-> EntryBefore.data]
        /\ Cardinality(DOMAIN cache) = Cardinality(DOMAIN call.cacheBefore)
        /\ cache = call.cacheBefore

\* the second call comes later than the first and names the currency the
\* first left out
C7_Witness ==
    /\ SecondWithinTtl
    /\ call.time > EntryBefore.timestamp
    /\ call.request.currency = "USD"
    /\ EntryBefore.data.currency = "USD"
    /\ call.attempts = <<>>

\* C8, as stated: when no provider succeeds the result is NOT_FOUND and the
\* cache is exactly as it was before the call.
C8_CacheUntouched ==
    (Single /\ ~call.response.success) =>
        /\ call.response.code = "NOT_FOUND"
        /\ cache = call.cacheBefore

\* C8, amended: when no provider succeeds the result is NOT_FOUND, the key is
\* absent from the cache afterwards and the entry of every other key is as it
\* was (an expired entry of the key itself is evicted by the lookup); a lookup
\* that finds the key absent goes to the providers.
C8_FailureNotCached ==
    /\ (Single /\ ~call.response.success) =>
          /\ call.response = [success |-> FALSE, code |-> "NOT_FOUND"]
          /\ DOMAIN cache = DOMAIN call.cacheBefore \ {CallKey}
          /\ \A k \in DOMAIN cache : cache[k] = call.cacheBefore[k]
    /\ (Single /\ CallKey \notin DOMAIN call.cacheBefore) => call.attempts # <<>>

\* a rate-limited provider and an unhealthy one; the expired entry of the key
\* is gone and the entry of another key is still there
C8_Witness ==
    /\ Single /\ ~call.response.success
    /\ \E i \in 1..Len(call.attempts) : call.attempts[i].outcome = "RATE_LIMITED"
    /\ \E i \in 1..Len(call.attempts) : call.attempts[i].outcome = "false"
    /\ CallKey \in DOMAIN call.cacheBefore
    /\ CallKey \notin DOMAIN cache
    /\ DOMAIN cache # {}

\* the entry of key k that the call found was still usable
LiveBefore(k) ==
    /\ k \in DOMAIN call.cacheBefore
    /\ ~(call.time > call.cacheBefore[k].expiresAt)

\* the positions of the batch's requests that the cache answered
HitPositions ==
    SelectSeq([i \in 1..Len(call.requests) |-> i],
              LAMBDA i : LiveBefore(KeyOfRequest(call.requests[i])))

CacheHits ==
    [j \in 1..Len(HitPositions) |->
        call.cacheBefore[KeyOfRequest(call.requests[HitPositions[j]])].data]

\* the items the providers returned, in the order they returned them
RECURSIVE NewlyResolved(_)
NewlyResolved(attempts) ==
    IF attempts = <<>> THEN <<>>
    ELSE Head(attempts).data \o NewlyResolved(Tail(attempts))

KeyOfItem(d) == <<d.identifierType, d.identifier, d.currency>>

\* no provider returned an item for key k
Unresolved(k) ==
    \A i \in 1..Len(call.attempts) : \A j \in 1..Len(call.attempts[i].data) :
        KeyOfItem(call.attempts[i].data[j]) # k

\* C9: getBatchPrices always answers success = true; its data is the cache
\* hits followed by every item a provider newly resolved; a request that is
\* neither a hit nor resolved by a provider has no item in the list, and an
\* empty request list yields an empty list.
C9_BatchAlwaysSucceeds ==
    Batch =>
        /\ call.response.success = TRUE
        /\ call.response.data = CacheHits \o NewlyResolved(call.attempts)
        /\ \A i \in 1..Len(call.requests) :
              LET k == KeyOfRequest(call.requests[i])
              IN  (~LiveBefore(k) /\ Unresolved(k))
                      => \A j \in 1..Len(call.response.data) :
                            KeyOfItem(call.response.data[j]) # k
        /\ call.requests = <<>> => call.response.data = <<>>

\* one request answered by the cache, the other resolved by nobody: one
\* provider threw and the other was unhealthy
C9_Witness ==
    /\ Batch
    /\ Len(call.requests) = 2
    /\ LiveBefore(KeyOfRequest(call.requests[1]))
    /\ ~LiveBefore(KeyOfRequest(call.requests[2]))
    /\ Unresolved(KeyOfRequest(call.requests[2]))
    /\ \E i \in 1..Len(call.attempts) : call.attempts[i].outcome = "throws"
    /\ \E i \in 1..Len(call.attempts) : call.attempts[i].outcome = "false"
    /\ Len(call.response.data) = 1
    /\ call.response.success

----------------------------------------------------------------------------
(* Reference notions for the aggregator, from the trades and the call record *)

Aggregated == portfolio.op \in {"getEnrichedPositions", "getPortfolioSummary"}

\* the quantity of the asset bought less the quantity sold
NetQuantity(isin) ==
    SumOver({i \in BuyIds(trades) : trades[i].isin = isin}, QtyOf(trades))
        - SumOver({i \in SellIds(trades) : trades[i].isin = isin}, QtyOf(trades))

\* the assets of which something is held
OpenIsins == {isin \in {trades[i].isin : i \in 1..Len(trades)} : NetQuantity(isin) > 0}

\* the key the price of a position is asked under: its ISIN, or its symbol
\* when it has none
LookupKey(p) ==
    IF p.isin # "" THEN <<"ISIN", p.isin, p.currency>>
    ELSE <<"SYMBOL", p.symbol, p.currency>>

\* the items the batched price lookup of the call resolved
ResolvedItems ==
    IF portfolio.priceResult = NULL THEN {}
    ELSE {portfolio.priceResult.data[j] : j \in 1..Len(portfolio.priceResult.data)}

LookupResolved(p) == \E d \in ResolvedItems : KeyOfItem(d) = LookupKey(p)
ResolvedItem(p) == CHOOSE d \in ResolvedItems : KeyOfItem(d) = LookupKey(p)

\* the position is returned without a price
Unpriced(p) ==
    /\ p.priceData = NULL
    /\ p.currentMarketValue = RZero
    /\ p.priceError = "Price data not available"
    /\ p.unrealizedGain = RSub(RZero, p.totalCostBasis)

\* the position is returned with the price that was resolved for it
Priced(p) ==
    /\ p.priceData = ResolvedItem(p)
    /\ p.currentPrice = R(ResolvedItem(p).price)
    /\ p.currentMarketValue = R(p.currentQuantity * ResolvedItem(p).price)
    /\ p.priceError = ""

\* C10: in getEnrichedPositions and getPortfolioSummary a failed price lookup
\* for one asset does not fail the call: every asset held is returned, the
\* asset whose lookup failed with currentMarketValue 0, priceError set and
\* unrealizedGain = 0 - totalCostBasis, and every other asset with the price
\* that was resolved for it.
C10_FailureIsolated ==
    Aggregated =>
        LET ps == portfolio.positions
        IN  /\ {ps[i].isin : i \in 1..Len(ps)} = OpenIsins
            /\ Len(ps) = Cardinality(OpenIsins)
            /\ portfolio.op = "getPortfolioSummary"
                  => portfolio.summary.positionCount = Cardinality(OpenIsins)
            /\ \A i \in 1..Len(ps) :
                  ~LookupResolved(ps[i])
                      => /\ Unpriced(ps[i])
                         /\ \A j \in 1..Len(ps) :
                               LookupResolved(ps[j]) => Priced(ps[j])

\* the same with the other assets limited to those that have an ISIN
IsolatedAmongIsins ==
    Aggregated =>
        LET ps == portfolio.positions
        IN  /\ {ps[i].isin : i \in 1..Len(ps)} = OpenIsins
            /\ Len(ps) = Cardinality(OpenIsins)
            /\ portfolio.op = "getPortfolioSummary"
                  => portfolio.summary.positionCount = Cardinality(OpenIsins)
            /\ \A i \in 1..Len(ps) :
                  ~LookupResolved(ps[i])
                      => /\ Unpriced(ps[i])
                         /\ \A j \in 1..Len(ps) :
                               (LookupResolved(ps[j]) /\ ps[j].isin # "")
                                   => Priced(ps[j])

\* one asset's lookup failed and another asset, one with an ISIN, was resolved
IsolatedWitness ==
    /\ Aggregated
    /\ \E i, j \in 1..Len(portfolio.positions) :
          /\ ~LookupResolved(portfolio.positions[i])
          /\ LookupResolved(portfolio.positions[j])
          /\ portfolio.positions[j].isin # ""
          /\ portfolio.positions[j].priceData # NULL

----------------------------------------------------------------------------
(* Reference notions for the later claims about the calculator *)

\* C11: calculateAssetPosition is deterministic and order-independent. For a
\* trade list with pairwise distinct dates every permutation of the list
\* yields the output the list itself yields (lots, realized gains, totals,
\* warnings), and a second call on the same list yields the same output again.
C11_OrderIndependent ==
    fifo.called =>
        /\ fifo.again = OutputOf(fifo)
        /\ DistinctDates(fifo.input) =>
              /\ fifo.permuted # {}
              /\ \A output \in fifo.permuted : output = OutputOf(fifo)

\* three trades on three dates, given latest first, with a sell matched
\* against both buys
C11_Witness ==
    /\ Computed
    /\ Len(fifo.input) = 3
    /\ DistinctDates(fifo.input)
    /\ fifo.input[1].tradeDate > fifo.input[2].tradeDate
    /\ fifo.input[2].tradeDate > fifo.input[3].tradeDate
    /\ fifo.input[1].direction = "SELL"
    /\ Len(fifo.position.realizedGains) = 2

\* the trade of the input list with the given id
TradeById(in, id) == in[CHOOSE i \in 1..Len(in) : in[i].id = id]

\* what a share of the lot of a buy cost: the buy's total cost, fees and
\* commission included, over its quantity
CostPerShareOf(buy) == RDiv(R(buy.totalCost), R(buy.quantity))

----------------------------------------------------------------------------
(* FIFOPositionCalculator.calculatePortfolioPositions, called on its own *)

MaxListedTrades == 3

\* the assets traded; the first was traded under two symbols
Listings ==
    {[isin |-> "US0378331005", symbol |-> "AAPL", currency |-> "USD"],
     [isin |-> "US0378331005", symbol |-> "APPL", currency |-> "USD"],
     [isin |-> "DE0007164600", symbol |-> "SAP", currency |-> "EUR"]}

\* One more trade execution of some listing arrives, later than those before.
RecordListedTrade ==
    /\ portfolio.op = "none"
    /\ Len(trades) < MaxListedTrades
    /\ \E asset \in Listings, dir \in Directions, q \in 1..MaxQty :
          trades' = Append(trades,
                        Trade(Len(trades) + 1, asset.isin, asset.symbol,
                              asset.currency, dir, q, Len(trades) + 1,
                              FlatFee, FlatCommission))
    /\ UNCHANGED <<fifo, priceVars, portfolio>>

CallCalculatePortfolioPositions ==
    /\ portfolio.op = "none"
    /\ portfolio' = [op |-> "calculatePortfolioPositions",
                     positions |-> CalculatePortfolioPositions(trades)]
    /\ UNCHANGED <<fifoVars, priceVars>>

NextPositions == RecordListedTrade \/ CallCalculatePortfolioPositions \/ Return

SpecPositions == InitFIFO /\ [][NextPositions]_vars

----------------------------------------------------------------------------
(* Reference notions for calculatePortfolioPositions *)

Positioned == portfolio.op = "calculatePortfolioPositions"

\* C13: calculatePortfolioPositions groups the trades by ISIN, not by symbol:
\* it returns exactly one position for each ISIN of which something is held
\* (FIFO currentQuantity > 0, the quantity bought less the quantity sold), none
\* for an ISIN of which nothing is held, and the list is in non-increasing
\* order of currentQuantity.
C13_OnePositionPerOpenIsin ==
    Positioned =>
        LET ps == portfolio.positions
        IN  /\ \A isin \in OpenIsins :
                  Cardinality({i \in 1..Len(ps) : ps[i].isin = isin}) = 1
            /\ \A i \in 1..Len(ps) :
                  /\ ps[i].isin \in OpenIsins
                  /\ ps[i].currentQuantity = NetQuantity(ps[i].isin)
            /\ \A i, j \in 1..Len(ps) :
                  i < j => ps[i].currentQuantity >= ps[j].currentQuantity

\* two assets are held, the one traded later under two symbols and in the
\* larger quantity, which comes first in the result
C13_Witness ==
    /\ Positioned
    /\ Len(trades) = 3
    /\ trades[2].isin = trades[3].isin
    /\ trades[2].symbol # trades[3].symbol
    /\ Len(portfolio.positions) = 2
    /\ portfolio.positions[1].isin = trades[2].isin
    /\ portfolio.positions[2].isin = trades[1].isin
    /\ portfolio.positions[1].currentQuantity > portfolio.positions[2].currentQuantity


----------------------------------------------------------------------------
(* PortfolioAggregator.calculatePortfolioTimeline *)

\* Trade dates count days; a calendar month has this many of them.
DaysPerMonth == 2

\* trade.tradeDate.toISOString().slice(0, 7): the month the date falls in.
\* The YYYY-MM keys compare as the months they name.
MonthKey(d) == (d - 1) \div DaysPerMonth

\* lines 299-307: monthlyData, its entries in the order the Map received them
RECURSIVE GroupByMonth(_)
GroupByMonth(sortedTrades) ==
    IF sortedTrades = <<>> THEN <<>>
    ELSE LET front == GroupByMonth(SubSeq(sortedTrades, 1, Len(sortedTrades) - 1))
             trade == sortedTrades[Len(sortedTrades)]
             monthKey == MonthKey(trade.tradeDate)
         IN  IF \E i \in 1..Len(front) : front[i].monthKey = monthKey
             THEN [i \in 1..Len(front) |->
                      IF front[i].monthKey = monthKey
                      THEN [front[i] EXCEPT !.monthTrades = Append(@, trade)]
                      ELSE front[i]]
             ELSE Append(front, [monthKey |-> monthKey, monthTrades |-> <<trade>>])

\* Array.from(monthlyData.entries()).sort(): the keys are distinct, so the
\* entries come out in the order of their keys
RECURSIVE InsertByMonth(_, _)
InsertByMonth(sorted, e) ==
    IF sorted = <<>> THEN <<e>>
    ELSE IF sorted[Len(sorted)].monthKey <= e.monthKey THEN Append(sorted, e)
    ELSE Append(InsertByMonth(SubSeq(sorted, 1, Len(sorted) - 1), e),
                sorted[Len(sorted)])

RECURSIVE SortByMonth(_)
SortByMonth(entries) ==
    IF entries = <<>> THEN <<>>
    ELSE InsertByMonth(SortByMonth(SubSeq(entries, 1, Len(entries) - 1)),
                       entries[Len(entries)])

\* the trades of the n-th month alone
MonthAlone(entries, n) == entries[n].monthTrades

\* cumulativeTrades after the n-th pass of the loop
RECURSIVE CumulativeTrades(_, _)
CumulativeTrades(entries, n) ==
    IF n = 0 THEN <<>>
    ELSE CumulativeTrades(entries, n - 1) \o entries[n].monthTrades

\* lines 316-323
TimelineEntry(monthKey, positions) ==
    [date |-> monthKey,
     invested |-> RSum([i \in 1..Len(positions) |-> positions[i].totalCostBasis]),
     positions |-> positions]

TimelineOf(entries) ==
    [n \in 1..Len(entries) |->
        TimelineEntry(entries[n].monthKey,
                      CalculatePortfolioPositions(CumulativeTrades(entries, n)))]

CalculatePortfolioTimeline(ts) ==
    IF Len(ts) = 0 THEN <<>>
    ELSE TimelineOf(SortByMonth(GroupByMonth(SortByDate(ts))))

MaxTimelineTrades == 2

\* the assets traded that have an ISIN
Securities == {a \in Assets : a.isin # ""}

\* One more trade execution arrives, of any date.
RecordSecurityTrade ==
    /\ portfolio.op = "none"
    /\ Len(trades) < MaxTimelineTrades
    /\ \E asset \in Securities, dir \in Directions, q \in 1..MaxQty, d \in 1..MaxDate :
          trades' = Append(trades,
                        Trade(Len(trades) + 1, asset.isin, asset.symbol,
                              asset.currency, dir, q, d, FlatFee, FlatCommission))
    /\ UNCHANGED <<fifo, priceVars, portfolio>>

CallCalculatePortfolioTimeline ==
    /\ portfolio.op = "none"
    /\ portfolio' = [op |-> "calculatePortfolioTimeline",
                     timeline |-> CalculatePortfolioTimeline(trades)]
    /\ UNCHANGED <<fifoVars, priceVars>>

NextTimeline == RecordSecurityTrade \/ CallCalculatePortfolioTimeline \/ Return

SpecTimeline == InitFIFO /\ [][NextTimeline]_vars

----------------------------------------------------------------------------
(* Reference notions for calculatePortfolioTimeline *)

Timelined == portfolio.op = "calculatePortfolioTimeline"

\* the calendar month of a trade date
MonthOf(d) == CHOOSE m \in 0..d : m * DaysPerMonth < d /\ d <= (m + 1) * DaysPerMonth

TradedMonths == {MonthOf(trades[i].tradeDate) : i \in 1..Len(trades)}

\* the trades dated in months up to and including month
TradesThrough(month) == SelectSeq(trades, LAMBDA t : MonthOf(t.tradeDate) <= month)

SetOf(s) == {s[i] : i \in 1..Len(s)}

\* C14: calculatePortfolioTimeline returns one entry per distinct calendar
\* month that has a trade, in ascending month order whatever the order of the
\* input; the entry of month N holds the positions computed from all trades
\* dated in months up to and including N, and its invested value is the sum of
\* the remaining FIFO cost basis of those positions.
C14_MonthlyTimeline ==
    Timelined =>
        LET timeline == portfolio.timeline
        IN  /\ {timeline[n].date : n \in 1..Len(timeline)} = TradedMonths
            /\ Len(timeline) = Cardinality(TradedMonths)
            /\ \A m, n \in 1..Len(timeline) :
                  m < n => timeline[m].date < timeline[n].date
            /\ \A n \in 1..Len(timeline) :
                  LET open == CalculatePortfolioPositions(TradesThrough(timeline[n].date))
                  IN  /\ SetOf(timeline[n].positions) = SetOf(open)
                      /\ Len(timeline[n].positions) = Len(open)
                      /\ timeline[n].invested =
                            RSum([i \in 1..Len(open) |-> open[i].totalCostBasis])

\* the later month's trade was given first: the first entry has the buy of the
\* earlier month alone, the second entry what the sell of the later month left
C14_Witness ==
    /\ Timelined
    /\ Len(trades) = 2
    /\ trades[1].tradeDate > trades[2].tradeDate
    /\ trades[1].direction = "SELL"
    /\ Len(portfolio.timeline) = 2
    /\ Len(portfolio.timeline[1].positions) = 1
    /\ Len(portfolio.timeline[2].positions) = 1
    /\ RLt(portfolio.timeline[2].invested, portfolio.timeline[1].invested)
    /\ RLt(RZero, portfolio.timeline[2].invested)


----------------------------------------------------------------------------
(* FIFOPositionCalculator.getRealizedGainsForPeriod *)

\* the sell date is before the end of the period
BeforeEnd(gain, startDate, endDate) ==
    gain.sellDate >= startDate /\ gain.sellDate < endDate

\* line 280
InPeriod(gain, startDate, endDate) ==
    gain.sellDate >= startDate /\ gain.sellDate <= endDate

\* lines 276-283: gains after the loop over the positions
RECURSIVE PeriodGains(_, _, _)
PeriodGains(positions, startDate, endDate) ==
    IF positions = <<>> THEN <<>>
    ELSE PeriodGains(SubSeq(positions, 1, Len(positions) - 1), startDate, endDate)
            \o SelectSeq(positions[Len(positions)].realizedGains,
                         LAMBDA gain : InPeriod(gain, startDate, endDate))

\* gains.sort((a, b) => b.sellDate.getTime() - a.sellDate.getTime()): stable
RECURSIVE InsertBySellDate(_, _)
InsertBySellDate(sorted, g) ==
    IF sorted = <<>> THEN <<g>>
    ELSE IF sorted[Len(sorted)].sellDate >= g.sellDate THEN Append(sorted, g)
    ELSE Append(InsertBySellDate(SubSeq(sorted, 1, Len(sorted) - 1), g),
                sorted[Len(sorted)])

RECURSIVE SortBySellDate(_)
SortBySellDate(gains) ==
    IF gains = <<>> THEN <<>>
    ELSE InsertBySellDate(SortBySellDate(SubSeq(gains, 1, Len(gains) - 1)),
                          gains[Len(gains)])

GetRealizedGainsForPeriod(positions, startDate, endDate) ==
    SortBySellDate(PeriodGains(positions, startDate, endDate))

\* the position of every asset traded, as calculateAssetPosition gives it
AssetPositions(allTrades) == PositionsOf(allTrades, IsinsOf(allTrades))

GainsForSomePeriod(positions) ==
    \E startDate, endDate \in 1..MaxDate :
        portfolio' = [op |-> "getRealizedGainsForPeriod",
                      positions |-> positions,
                      startDate |-> startDate,
                      endDate |-> endDate,
                      gains |-> GetRealizedGainsForPeriod(positions, startDate, endDate)]

CallGetRealizedGainsForPeriod ==
    /\ portfolio.op = "none"
    /\ GainsForSomePeriod(AssetPositions(trades))
    /\ UNCHANGED <<fifoVars, priceVars>>

NextGains == RecordListedTrade \/ CallGetRealizedGainsForPeriod \/ Return

SpecGains == InitFIFO /\ [][NextGains]_vars

----------------------------------------------------------------------------
(* Reference notions for getRealizedGainsForPeriod *)

GainsAsked == portfolio.op = "getRealizedGainsForPeriod"

\* every realized gain of the positions given
GivenGains ==
    UNION {SetOf(portfolio.positions[i].realizedGains) :
             i \in 1..Len(portfolio.positions)}

\* C15: getRealizedGainsForPeriod(positions, start, end) returns exactly the
\* realized gains of all given positions whose sellDate satisfies
\* start <= sellDate <= end, both bounds inclusive, each once, ordered by
\* sellDate non-increasing.
C15_GainsOfPeriod ==
    GainsAsked =>
        LET gains == portfolio.gains
            within == {g \in GivenGains : /\ portfolio.startDate <= g.sellDate
                                          /\ g.sellDate <= portfolio.endDate}
        IN  /\ SetOf(gains) = within
            /\ Len(gains) = Cardinality(within)
            /\ \A i, j \in 1..Len(gains) :
                  i < j => gains[i].sellDate >= gains[j].sellDate

\* two sells of one buy, the first on the first day of the period and the
\* second on its last day: both are returned, the later sell first
C15_Witness ==
    /\ GainsAsked
    /\ portfolio.startDate < portfolio.endDate
    /\ Len(portfolio.gains) = 2
    /\ portfolio.gains[1].sellDate = portfolio.endDate
    /\ portfolio.gains[2].sellDate = portfolio.startDate
    /\ portfolio.gains[1].buyTradeId = portfolio.gains[2].buyTradeId
    /\ Cardinality(GivenGains) = 2


----------------------------------------------------------------------------
(* Reference notions for the percentages of the aggregator *)

Summed == portfolio.op = "getPortfolioSummary"

IsNumber(x) == x[2] > 0
NotPositive(x) == RLe(x, RZero)

\* the percentage is a number, and 0 when its denominator is not positive
ZeroGuarded(percentage, denominator) ==
    /\ IsNumber(percentage)
    /\ NotPositive(denominator) => percentage = RZero

C16_EmptyPortfolio ==
    /\ Summed
    /\ portfolio.positions = <<>>
    /\ portfolio.summary.positionCount = 0
    /\ portfolio.summary.totalInvested = RZero


----------------------------------------------------------------------------
(* PortfolioAggregator.getAssetPosition *)

NoAssetPosition(c) == [position |-> NULL, lookup |-> NULL, cache |-> c]

\* lines 255-282: dailyChange is priceData?.change ? change * quantity : undefined
EnrichedAssetPosition(position, priceData, currentPrice) ==
    [WithPrice(position, priceData, currentPrice) EXCEPT
        !.dailyChange = IF priceData # NULL /\ priceData.change # 0
                        THEN Defined(R(priceData.change * position.currentQuantity))
                        ELSE NULL]

\* lines 255-256, the price response being known
AssetPositionWith(position, request, r) ==
    [position |-> IF r.response.success
                  THEN EnrichedAssetPosition(position, r.response.data,
                                             R(r.response.data.price))
                  ELSE EnrichedAssetPosition(position, NULL, RZero),
     lookup |-> [request |-> request, response |-> r.response,
                 attempts |-> r.attempts],
     cache |-> r.cache]

\* lines 249-253
AssetPriceRequest(position) == Request("ISIN", position.isin, position.currency)

\* lines 245-253, the trades of the asset being known
AssetPositionOf(ps, behaviours, position, c, t) ==
    IF position = NULL THEN NoAssetPosition(c)
    ELSE AssetPositionWith(position, AssetPriceRequest(position),
             GetCurrentPrice(ps, behaviours, AssetPriceRequest(position), c, t))

\* getAssetPosition: [position, lookup, cache]
GetAssetPosition(ps, behaviours, allTrades, isin, c, t) ==
    IF Len(TradesOf(allTrades, isin)) = 0 THEN NoAssetPosition(c)
    ELSE AssetPositionOf(ps, behaviours,
             CalculateAssetPosition(TradesOf(allTrades, isin)).position, c, t)

----------------------------------------------------------------------------
(* Every operation of the calculator and the aggregator on one trade list *)

\* the ISINs a position is asked for
AskedIsins == {a.isin : a \in Assets}

\* calculator.calculateAssetPosition(the trades of one asset)
CallCalculateAssetPosition ==
    /\ portfolio.op = "none"
    /\ \E isin \in AskedIsins :
          portfolio' = [op |-> "calculateAssetPosition",
                        input |-> TradesOf(trades, isin),
                        position |-> CalculateAssetPosition(TradesOf(trades, isin)).position]
    /\ UNCHANGED <<fifoVars, priceVars>>

AssetPositionReturns(isin, r) ==
    /\ cache' = r.cache
    /\ portfolio' = [op |-> "getAssetPosition", isin |-> isin,
                     position |-> r.position, lookup |-> r.lookup]

\* portfolioAggregator.getAssetPosition(trades, isin)
CallGetAssetPosition ==
    /\ portfolio.op = "none"
    /\ \E asset \in Assets :
       \E behaviours \in [ProviderNames ->
                BehavioursOver({GenerateKey(asset.isin, "ISIN", asset.currency)})] :
          AssetPositionReturns(asset.isin,
              GetAssetPosition(providers, behaviours, trades, asset.isin, cache, now))
    /\ UNCHANGED <<fifoVars, now, providers, call>>

NextAggregator ==
    \/ RecordAssetTrade
    \/ CallCalculateAssetPosition
    \/ CallCalculatePortfolioPositions
    \/ CallCalculatePortfolioTimeline
    \/ CallGetEnrichedPositions
    \/ CallGetAssetPosition
    \/ Return

SpecAggregator == InitPrice /\ [][NextAggregator]_vars

----------------------------------------------------------------------------
(* Reference notions for the operations on a list without trades *)

NoTradeOf(isin) == \A i \in 1..Len(trades) : trades[i].isin # isin

\* C17: absence of trades is a result, not an error: calculateAssetPosition([])
\* returns null; calculatePortfolioPositions([]), getEnrichedPositions([]) and
\* calculatePortfolioTimeline([]) return an empty list; getAssetPosition
\* returns null when no trade in the list has the requested ISIN, and no price
\* lookup is made for it.
C17_AbsenceIsAResult ==
    /\ portfolio.op = "calculateAssetPosition" /\ portfolio.input = <<>>
          => portfolio.position = NULL
    /\ portfolio.op = "calculatePortfolioPositions" /\ trades = <<>>
          => portfolio.positions = <<>>
    /\ portfolio.op = "getEnrichedPositions" /\ trades = <<>>
          => portfolio.positions = <<>>
    /\ portfolio.op = "calculatePortfolioTimeline" /\ trades = <<>>
          => portfolio.timeline = <<>>
    /\ portfolio.op = "getAssetPosition" /\ NoTradeOf(portfolio.isin)
          => /\ portfolio.position = NULL
             /\ portfolio.lookup = NULL

\* two assets were traded and the position of a third one is asked for
C17_Witness ==
    /\ portfolio.op = "getAssetPosition"
    /\ Len(trades) = 2
    /\ trades[1].isin # trades[2].isin
    /\ NoTradeOf(portfolio.isin)
    /\ portfolio.position = NULL
    /\ portfolio.lookup = NULL


----------------------------------------------------------------------------
(* The price service asked for single prices and for batches in turn *)


\* the keys of the items the providers returned to a batch call
BatchWritten(attempts) ==
    UNION {{KeyOfData(attempts[i].data[j]) : j \in 1..Len(attempts[i].data)} :
              i \in 1..Len(attempts)}

\* the caller takes the response; the service is idle again, and what a batch
\* call wrote to the cache is remembered
HandOver ==
    /\ call.op # "none"
    /\ call' = Idle(IF call.op = "getBatchPrices" /\ BatchWritten(call.attempts) # {}
                    THEN [written |-> BatchWritten(call.attempts),
                          time |-> call.time]
                    ELSE NoLast)
    /\ UNCHANGED <<fifoVars, now, providers, cache, portfolio>>

NextService ==
    Tick \/ CallGetCurrentPrice \/ CallGetBatchPrices \/ ClearCache \/ HandOver

SpecService == InitPrice /\ [][NextService]_vars


----------------------------------------------------------------------------
(* Reference notions for the provider calls of the price service *)

Called == call.op # "none"

IsLookup(a) == a.method \in {"getCurrentPrice", "getBatchPrices"}
IsHealthCheck(a) == a.method = "healthCheck"
Unhealthy(a) == IsHealthCheck(a) /\ a.outcome \in {"false", "throws"}

\* the provider tried after the named one: the next in priority
IsNextAfter(next, name) ==
    /\ PriorityOf(next) > PriorityOf(name)
    /\ \A p \in ProviderSet :
          ~(PriorityOf(name) < p.priority /\ p.priority < PriorityOf(next))

IsLastProvider(name) == \A p \in ProviderSet : p.priority <= PriorityOf(name)

\* C18: getCurrentPrice and getBatchPrices call a provider's health check
\* before its price lookup, and never call the price lookup, single or batch,
\* of a provider whose health check returned false or threw: such a provider
\* is skipped and the next one is tried.
C18_HealthCheckFirst ==
    Called =>
        LET n == Len(call.attempts)
        IN  /\ \A k \in 1..n :
                  IsLookup(call.attempts[k])
                      => /\ k > 1
                         /\ IsHealthCheck(call.attempts[k - 1])
                         /\ call.attempts[k - 1].provider = call.attempts[k].provider
                         /\ call.attempts[k - 1].outcome = "true"
            /\ \A j, k \in 1..n :
                  (Unhealthy(call.attempts[j]) /\ IsLookup(call.attempts[k]))
                      => call.attempts[k].provider # call.attempts[j].provider
            /\ \A k \in 1..n :
                  Unhealthy(call.attempts[k])
                      => IF k = n THEN IsLastProvider(call.attempts[k].provider)
                         ELSE /\ IsHealthCheck(call.attempts[k + 1])
                              /\ IsNextAfter(call.attempts[k + 1].provider,
                                             call.attempts[k].provider)

\* a batch: the first provider's health check threw, and the second provider,
\* found healthy, was asked for the prices and returned them
C18_Witness ==
    /\ Batch
    /\ Len(call.attempts) = 3
    /\ call.attempts[1].provider = "TestProvider"
    /\ call.attempts[1].method = "healthCheck"
    /\ call.attempts[1].outcome = "throws"
    /\ call.attempts[2].provider = "mock"
    /\ call.attempts[2].outcome = "true"
    /\ call.attempts[3].method = "getBatchPrices"
    /\ call.attempts[3].outcome = "data"
    /\ Len(call.response.data) = 2

\* a single price: the first provider said it was not healthy, the second one
\* answered
C18_SinglePrice ==
    /\ Single
    /\ Len(call.attempts) = 3
    /\ call.attempts[1].provider = "TestProvider"
    /\ call.attempts[1].outcome = "false"
    /\ call.attempts[3].method = "getCurrentPrice"
    /\ call.attempts[3].outcome = "data"


----------------------------------------------------------------------------
(* Reference notions for the provider calls of a batch *)

\* the request as it is sent to a provider: its currency named
Sent(r) ==
    [identifier |-> r.identifier, identifierType |-> r.identifierType,
     currency |-> IF r.currency = "" THEN "USD" ELSE r.currency]

\* the key was resolved by one of the first k provider calls
ResolvedWithin(key, k) ==
    \E i \in 1..k : \E j \in 1..Len(call.attempts[i].data) :
        KeyOfItem(call.attempts[i].data[j]) = key

\* the requests neither answered by the cache nor resolved by one of the
\* first k provider calls, in the order of the batch
UnresolvedAfter(k) ==
    LET open == SelectSeq(call.requests,
                    LAMBDA r : /\ ~LiveBefore(KeyOfRequest(r))
                               /\ ~ResolvedWithin(KeyOfRequest(r), k))
    IN  [i \in 1..Len(open) |-> Sent(open[i])]

\* C19: getBatchPrices makes no provider call when every requested key is a
\* cache hit; otherwise each provider, in priority order, is sent only the
\* requests not yet resolved by the cache or by an earlier provider, and once
\* the unresolved list is empty no further provider is called.
C19_OnlyUnresolvedSent ==
    Batch =>
        LET n == Len(call.attempts)
        IN  /\ UnresolvedAfter(0) = <<>> => n = 0
            /\ \A k \in 1..n :
                  /\ UnresolvedAfter(k - 1) # <<>>
                  /\ call.attempts[k].method = "getBatchPrices"
                        => call.attempts[k].requests = UnresolvedAfter(k - 1)
            /\ \A k \in 1..n :
                  (IsHealthCheck(call.attempts[k]) /\ call.attempts[k].outcome = "true")
                      => /\ k < n
                         /\ call.attempts[k + 1].method = "getBatchPrices"
                         /\ call.attempts[k + 1].provider = call.attempts[k].provider
            /\ \A j, k \in 1..n :
                  j < k => PriorityOf(call.attempts[j].provider)
                              <= PriorityOf(call.attempts[k].provider)
            /\ \A k \in 1..n : \A p \in ProviderSet :
                  p.priority < PriorityOf(call.attempts[k].provider)
                      => \E j \in 1..(k - 1) : call.attempts[j].provider = p.name
            /\ UnresolvedAfter(n) # <<>>
                  => /\ n > 0
                     /\ IsLastProvider(call.attempts[n].provider)

\* of two requests the cache answered the first; the first provider resolved
\* nothing, was sent the second request alone, and so was the second provider,
\* which resolved it
C19_Witness ==
    /\ Batch
    /\ Len(call.requests) = 2
    /\ LiveBefore(KeyOfRequest(call.requests[1]))
    /\ Len(call.attempts) = 4
    /\ call.attempts[2].method = "getBatchPrices"
    /\ call.attempts[2].outcome = "data"
    /\ call.attempts[2].data = <<>>
    /\ call.attempts[2].requests = <<Sent(call.requests[2])>>
    /\ call.attempts[4].method = "getBatchPrices"
    /\ call.attempts[4].requests = <<Sent(call.requests[2])>>
    /\ Len(call.attempts[4].data) = 1

\* two keys were asked for: the first provider resolved one of them and the
\* second provider was sent the other alone
C19_Narrowed ==
    /\ Batch
    /\ Len(call.attempts) = 4
    /\ Len(call.attempts[2].requests) = 2
    /\ Len(call.attempts[2].data) = 1
    /\ Len(call.attempts[4].requests) = 1
    /\ call.attempts[4].requests[1] # call.attempts[2].requests[1]


----------------------------------------------------------------------------
(* Reference notions for what a batch leaves in the cache *)

\* the call follows a batch that wrote entries, within their TTL
FollowsBatch ==
    /\ Called
    /\ call.last # NoLast
    /\ call.time < call.last.time + DefaultTTL

\* no provider was sent a request for the key
NotSent(key) ==
    \A k \in 1..Len(call.attempts) : \A j \in 1..Len(call.attempts[k].requests) :
        KeyOfRequest(call.attempts[k].requests[j]) # key

\* C20: every item newly resolved by getBatchPrices is written to the cache
\* under its (identifierType, identifier, currency) key with the fixed TTL, so
\* that a following getCurrentPrice or getBatchPrices for the same requested
\* key within the TTL is a cache hit and makes no provider call for it.
C20_BatchResultsCached ==
    /\ Batch =>
          \A k \in 1..Len(call.attempts) : \A j \in 1..Len(call.attempts[k].data) :
              LET d == call.attempts[k].data[j]
              IN  /\ KeyOfItem(d) \in DOMAIN cache
                  /\ cache[KeyOfItem(d)] =
                        [data |-> d, timestamp |-> call.time,
                         expiresAt |-> call.time + DefaultTTL]
    /\ (FollowsBatch /\ Single /\ CallKey \in call.last.written)
          => /\ call.attempts = <<>>
             /\ call.response = [success |-> TRUE, data |-> EntryBefore.data]
             /\ EntryBefore.timestamp = call.last.time
    /\ (FollowsBatch /\ Batch)
          => \A i \in 1..Len(call.requests) :
                KeyOfRequest(call.requests[i]) \in call.last.written
                    => /\ NotSent(KeyOfRequest(call.requests[i]))
                       /\ \E j \in 1..Len(call.response.data) :
                             call.response.data[j] =
                                call.cacheBefore[KeyOfRequest(call.requests[i])].data

\* a batch resolved the key; a later getCurrentPrice for it, the currency left
\* out, is answered from the cache
C20_Witness ==
    /\ FollowsBatch
    /\ Single
    /\ call.time > call.last.time
    /\ CallKey \in call.last.written
    /\ call.request.currency = ""
    /\ call.attempts = <<>>
    /\ call.response.success

\* a batch resolved one key; a later batch asks for it and for another key,
\* and the providers are sent the other key alone
C20_BatchAfterBatch ==
    /\ FollowsBatch
    /\ Batch
    /\ call.time > call.last.time
    /\ Len(call.requests) = 2
    /\ KeyOfRequest(call.requests[1]) \in call.last.written
    /\ KeyOfRequest(call.requests[2]) \notin call.last.written
    /\ Len(call.attempts) = 2
    /\ call.attempts[2].requests = <<Sent(call.requests[2])>>
    /\ Len(call.response.data) = 2


----------------------------------------------------------------------------
(* Reference notions for lookups that find an entry past its time to live *)

\* the response carries what a provider returned during this very call
FreshlyFetched ==
    /\ call.attempts # <<>>
    /\ call.attempts[Len(call.attempts)].outcome = "data"
    /\ call.response.data.timestamp = call.time

\* what the call does about an entry it must not use: the providers are asked,
\* a success carries their data and is the new entry, a failure leaves the key
\* without an entry
EntryNotUsed ==
    /\ call.attempts # <<>>
    /\ call.response.success
          => /\ FreshlyFetched
             /\ CallKey \in DOMAIN cache
             /\ cache[CallKey].data = call.response.data
             /\ cache[CallKey].timestamp = call.time
    /\ ~call.response.success => CallKey \notin DOMAIN cache

\* C21: a lookup that finds an expired entry (one no longer eligible: the time
\* is not before its expiresAt) removes it from the cache and goes to the
\* providers; if that refetch fails the key is absent afterwards, and no
\* response carries the data of an entry whose expiry has passed.
C21_NoExpiredData ==
    (HadEntry /\ call.time >= EntryBefore.expiresAt) => EntryNotUsed

\* the same for the lookups that come later than expiresAt
C21_AfterExpiry ==
    (HadEntry /\ call.time > EntryBefore.expiresAt) => EntryNotUsed

\* the refetch of an entry found after its expiresAt failed
C21_RefetchFailed ==
    /\ HadEntry
    /\ call.time > EntryBefore.expiresAt
    /\ ~call.response.success
    /\ CallKey \notin DOMAIN cache


----------------------------------------------------------------------------
(* Two callers of PriceService.getCurrentPrice on one event loop: each runs *)
(* from one await to the next without interruption, and the other caller   *)
(* may run while it waits for a provider.                                   *)

Callers == {1, 2}

IdleCaller == [pc |-> "idle"]

\* the call has returned
Completed(request, lookups, response) ==
    [pc |-> "done", request |-> request, lookups |-> lookups, response |-> response]

\* the call waits for provider i: for its health check or for its price
Awaiting(pc, request, i, lookups) ==
    [pc |-> pc, request |-> request, i |-> i, lookups |-> lookups]

\* lines 686-696: the provider failed; the loop goes on or ends
AfterFailure(c) ==
    IF c.i < Len(providers)
    THEN Awaiting("healthCheck", c.request, c.i + 1, c.lookups)
    ELSE Completed(c.request, c.lookups, NotFound)

InitFlights ==
    /\ trades = <<>>
    /\ fifo = NoCall
    /\ now = 0
    /\ \E cfg \in Configurations : providers = InitializeProviders(cfg)
    /\ cache = EmptyCache
    /\ call = [callers |-> [c \in Callers |-> IdleCaller], lastWriter |-> 0]
    /\ portfolio = NoPortfolioCall

\* time passes
Elapse ==
    /\ now < MaxTime
    /\ now' = now + 1
    /\ UNCHANGED <<fifoVars, providers, cache, call, portfolio>>

\* lines 664-678: the call starts, reads the cache and on a miss reaches the
\* await of the first provider's health check
Begin(c) ==
    /\ call.callers[c].pc = "idle"
    /\ \E request \in Requests :
          /\ cache' = CacheAfterGet(cache, RequestKey(request), now)
          /\ call' = [call EXCEPT !.callers[c] =
                IF CacheGetData(cache, RequestKey(request), now) # NULL
                THEN Completed(request, 0,
                         [success |-> TRUE,
                          data |-> CacheGetData(cache, RequestKey(request), now)])
                ELSE Awaiting("healthCheck", request, 1, 0)]
    /\ UNCHANGED <<fifoVars, now, providers, portfolio>>

\* lines 645-654: provider.healthCheck() returns or throws; a healthy
\* provider is asked for the price, which is the next await
HealthCheckReturns(c) ==
    /\ call.callers[c].pc = "healthCheck"
    /\ \E outcome \in {"true", "false", "throws"} :
          call' = [call EXCEPT !.callers[c] =
                IF outcome = "true"
                THEN Awaiting("getCurrentPrice", @.request, @.i, @.lookups + 1)
                ELSE AfterFailure(@)]
    /\ UNCHANGED <<fifoVars, now, providers, cache, portfolio>>

\* lines 654-661 and 680-684: provider.getCurrentPrice(request) returns or
\* throws; a price is written to the cache and returned
PriceReturns(c) ==
    /\ call.callers[c].pc = "getCurrentPrice"
    /\ \E outcome \in {"data", "NOT_FOUND", "RATE_LIMITED", "throws"} :
          LET me == call.callers[c]
              data == PriceDataOf(providers[me.i], WithCurrency(me.request), now)
          IN  IF outcome = "data"
              THEN /\ cache' = CacheSet(cache, RequestKey(me.request), data, now)
                   /\ call' = [callers |-> [call.callers EXCEPT ![c] =
                                   Completed(me.request, me.lookups,
                                             [success |-> TRUE, data |-> data])],
                               lastWriter |-> c]
              ELSE /\ cache' = cache
                   /\ call' = [call EXCEPT !.callers[c] = AfterFailure(me)]
    /\ UNCHANGED <<fifoVars, now, providers, portfolio>>

\* both callers have their responses; they may call again
BothReturn ==
    /\ \A c \in Callers : call.callers[c].pc = "done"
    /\ call' = [callers |-> [c \in Callers |-> IdleCaller], lastWriter |-> 0]
    /\ UNCHANGED <<fifoVars, now, providers, cache, portfolio>>

NextFlights ==
    \/ Elapse
    \/ \E c \in Callers : Begin(c)
    \/ \E c \in Callers : HealthCheckReturns(c)
    \/ \E c \in Callers : PriceReturns(c)
    \/ BothReturn

SpecFlights == InitFlights /\ [][NextFlights]_vars


----------------------------------------------------------------------------
(* Reference notions for two interleaved calls *)

Caller(c) == call.callers[c]
BothCompleted == \A c \in Callers : Caller(c).pc = "done"

\* both calls were for one key, found no usable entry and were each given a
\* price by a provider
BothFetched ==
    /\ BothCompleted
    /\ RequestKey(Caller(1).request) = RequestKey(Caller(2).request)
    /\ \A c \in Callers : Caller(c).lookups >= 1 /\ Caller(c).response.success

\* C22: there is no single-flight de-duplication: two getCurrentPrice calls
\* for the same uncached key that interleave at the provider await each invoke
\* the provider; when both have completed, the cache holds exactly one entry
\* for the key, whole and the one written last, and both callers have a
\* successful result, each the price its own provider call returned.
C22_NoSingleFlight ==
    BothFetched =>
        LET key == RequestKey(Caller(1).request)
        IN  /\ call.lastWriter \in Callers
            /\ key \in DOMAIN cache
            /\ cache[key].data = Caller(call.lastWriter).response.data
            /\ cache[key].timestamp = cache[key].data.timestamp
            /\ cache[key].expiresAt = cache[key].timestamp + DefaultTTL
            /\ \A c \in Callers :
                  /\ Caller(c).response.data.timestamp <= cache[key].timestamp
                  /\ KeyOfData(Caller(c).response.data) = key

\* the second caller started while the first waited, was answered first and
\* by another provider; the first caller's price came later and is the entry
C22_Witness ==
    /\ BothFetched
    /\ call.lastWriter = 1
    /\ Caller(1).lookups = 1
    /\ Caller(2).lookups = 2
    /\ Caller(2).response.data.timestamp < Caller(1).response.data.timestamp
    /\ Caller(2).response.data.price # Caller(1).response.data.price
    /\ Caller(1).request # Caller(2).request
    /\ cache[RequestKey(Caller(1).request)].data = Caller(1).response.data


----------------------------------------------------------------------------
(* Reference notions for the lots during the matching *)

\* the lot is within its bounds, and holds what the first p realized gains
\* have not taken of it: all of it while nothing was matched against it
LotAfter(lot, p) ==
    /\ lot.originalQuantity = fifo.input[lot.tradeId].quantity
    /\ 0 <= lot.remainingQuantity
    /\ lot.remainingQuantity <= lot.originalQuantity
    /\ lot.remainingQuantity =
          lot.originalQuantity
              - MatchedBefore(fifo.position.realizedGains, p + 1, lot.tradeId)

\* C23: during calculateAssetPosition every lot's remainingQuantity starts at
\* its originalQuantity, never increases, and stays within 0..originalQuantity
\* after every matching step, for any sequence of sells, short-sell attempts
\* included.
C23_LotWithinBounds ==
    Computed =>
        /\ Len(fifo.steps) = Len(fifo.position.realizedGains)
        /\ \A p \in 1..Len(fifo.steps) : \A k \in 1..Len(fifo.steps[p]) :
              /\ LotAfter(fifo.steps[p][k], p)
              /\ \A q \in p..Len(fifo.steps) : \A l \in 1..Len(fifo.steps[q]) :
                    fifo.steps[q][l].tradeId = fifo.steps[p][k].tradeId
                        => fifo.steps[q][l].remainingQuantity
                              <= fifo.steps[p][k].remainingQuantity
        /\ \A k \in 1..Len(fifo.position.remainingLots) :
              LotAfter(fifo.position.remainingLots[k], Len(fifo.steps))

\* two sells of one lot of 2, the second for more than is left: the lot goes
\* from 2 to 1 and to 0
C23_Witness ==
    /\ Computed
    /\ fifo.warnings # <<>>
    /\ Len(fifo.steps) >= 2
    /\ fifo.steps[1][1].tradeId = fifo.steps[2][1].tradeId
    /\ fifo.steps[1][1].originalQuantity = 2
    /\ fifo.steps[1][1].remainingQuantity = 1
    /\ fifo.steps[2][1].remainingQuantity = 0


----------------------------------------------------------------------------
(* Reference notions for buys of one date *)

\* the buys i and j of the input, i given first, have one trade date
BuysOfOneDate(in, i, j) ==
    /\ i \in BuyIds(in) /\ j \in BuyIds(in)
    /\ i < j
    /\ in[i].tradeDate = in[j].tradeDate

\* C24: when two BUY trades have an identical trade date, their lots are
\* consumed in the order the trades appear in the input list: the lot of the
\* trade that comes first in the input is fully consumed before the other is
\* touched.
C24_TiesInInputOrder ==
    Computed =>
        \A i, j \in 1..Len(fifo.input) :
            BuysOfOneDate(fifo.input, i, j)
                => /\ \A p \in 1..Len(fifo.position.realizedGains) :
                         fifo.position.realizedGains[p].buyTradeId = j
                             => MatchedBefore(fifo.position.realizedGains, p, i)
                                    = fifo.input[i].quantity
                   /\ \A k \in 1..Len(fifo.position.remainingLots) :
                         fifo.position.remainingLots[k].tradeId = i
                             => \A p \in 1..Len(fifo.position.realizedGains) :
                                   fifo.position.realizedGains[p].buyTradeId # j

\* BUY 1 and BUY 2 on one day, then more than 1 sold: the first buy's lot is
\* consumed whole, then part of the second
C24_Witness ==
    /\ Computed
    /\ Len(fifo.input) = 3
    /\ BuysOfOneDate(fifo.input, 1, 2)
    /\ fifo.input[3].tradeDate > fifo.input[1].tradeDate
    /\ Len(fifo.position.realizedGains) = 2
    /\ fifo.position.realizedGains[1].buyTradeId = 1
    /\ fifo.position.realizedGains[2].buyTradeId = 2
    /\ Len(fifo.position.remainingLots) = 1
    /\ fifo.position.remainingLots[1].tradeId = 2


----------------------------------------------------------------------------
\* C25: in getEnrichedPositions every position for which the batched price
\* lookup resolved a price receives that price: priceData set,
\* currentMarketValue = currentQuantity x price, no priceError. This holds also
\* for a position whose ISIN is empty and which was looked up by its symbol.
C25_ResolvedPriceJoined ==
    Aggregated =>
        \A i \in 1..Len(portfolio.positions) :
            LookupResolved(portfolio.positions[i]) => Priced(portfolio.positions[i])

\* the same for the positions that have an ISIN
C25_JoinedByIsin ==
    Aggregated =>
        \A i \in 1..Len(portfolio.positions) :
            (portfolio.positions[i].isin # "" /\ LookupResolved(portfolio.positions[i]))
                => Priced(portfolio.positions[i])

\* a position with an ISIN was resolved and has its price
C25_IsinPriced ==
    /\ Aggregated
    /\ \E i \in 1..Len(portfolio.positions) :
          /\ portfolio.positions[i].isin # ""
          /\ LookupResolved(portfolio.positions[i])
          /\ Priced(portfolio.positions[i])

\* the price of a position without an ISIN was resolved under its symbol, and
\* the position is returned without it
C25_SymbolPriceLost ==
    /\ Aggregated
    /\ \E i \in 1..Len(portfolio.positions) :
          /\ portfolio.positions[i].isin = ""
          /\ LookupResolved(portfolio.positions[i])
          /\ Unpriced(portfolio.positions[i])


----------------------------------------------------------------------------
\* C26: totalCostBasis is the sum over the remaining lots of
\* remainingQuantity x costPerShare, which is 0 for a position that is fully
\* closed or clamped after an oversell; averageCostPerShare is
\* totalCostBasis / currentQuantity when currentQuantity > 0 and 0 otherwise.
CostOfLots(lots) ==
    RSum([i \in 1..Len(lots) |->
            RMul(R(lots[i].remainingQuantity), lots[i].costPerShare)])

C26_CostBasisOfRemainingLots ==
    (fifo.called /\ fifo.position # NULL) =>
        LET p == fifo.position IN
        /\ p.totalCostBasis = CostOfLots(p.remainingLots)
        /\ (p.totalBought <= p.totalSold) =>
              /\ p.currentQuantity = 0
              /\ p.totalCostBasis = RZero
              /\ p.averageCostPerShare = RZero
        /\ (p.totalBought > p.totalSold) =>
              /\ p.currentQuantity > 0
              /\ RMul(p.averageCostPerShare, R(p.currentQuantity)) = p.totalCostBasis

\* two lots of different cost remain after a sell took part of the holding
C26_Witness ==
    /\ fifo.called
    /\ fifo.position # NULL
    /\ fifo.position.totalSold > 0
    /\ Len(fifo.position.remainingLots) = 2
    /\ fifo.position.remainingLots[1].costPerShare
          # fifo.position.remainingLots[2].costPerShare
    /\ fifo.position.averageCostPerShare # RZero

\* more was sold than bought: the clamped position has no cost
C26_ShortClamped ==
    /\ fifo.called
    /\ fifo.position # NULL
    /\ fifo.position.totalBought > 0
    /\ fifo.position.totalSold > fifo.position.totalBought
    /\ fifo.position.totalCostBasis = RZero


----------------------------------------------------------------------------
(* getPortfolioSummary over assets that are bought and sold again *)

MaxHeldTrades == 3

\* the assets traded
Holdings ==
    {[isin |-> "US0378331005", symbol |-> "AAPL", currency |-> "USD"],
     [isin |-> "DE0007164600", symbol |-> "SAP", currency |-> "EUR"]}

\* One more trade execution of some holding arrives, later than those before.
RecordHeldTrade ==
    /\ portfolio.op = "none"
    /\ Len(trades) < MaxHeldTrades
    /\ \E asset \in Holdings, dir \in Directions, q \in 1..MaxQty :
          trades' = Append(trades,
                        Trade(Len(trades) + 1, asset.isin, asset.symbol,
                              asset.currency, dir, q, Len(trades) + 1,
                              FlatFee, FlatCommission))
    /\ UNCHANGED <<fifo, priceVars, portfolio>>

NextSummary == RecordHeldTrade \/ CallGetPortfolioSummary \/ Return

SpecSummary == InitPrice /\ [][NextSummary]_vars

----------------------------------------------------------------------------
(* Reference notions for the assets a summary counts *)

Bought(isin) ==
    Sum([i \in 1..Len(trades) |->
            IF trades[i].isin = isin /\ IsBuy(trades[i])
            THEN trades[i].quantity ELSE 0])
Sold(isin) ==
    Sum([i \in 1..Len(trades) |->
            IF trades[i].isin = isin /\ IsSell(trades[i])
            THEN trades[i].quantity ELSE 0])

\* the ISINs traded of which something is held, and those of which nothing is
HeldIsins == {isin \in SetOf(IsinsOf(trades)) : Bought(isin) > Sold(isin)}
ClosedIsins == SetOf(IsinsOf(trades)) \ HeldIsins

\* what all the trades of the given ISINs paid in fees and commission
FeesOf(isins) ==
    Sum([i \in 1..Len(trades) |->
            IF trades[i].isin \in isins
            THEN trades[i].fees + trades[i].commission ELSE 0])

\* the realized gain of an asset by itself
RECURSIVE RealizedOf(_)
RealizedOf(isins) ==
    IF isins = {} THEN RZero
    ELSE LET isin == CHOOSE i \in isins : TRUE
         IN  RAdd(CalculateAssetPosition(TradesOf(trades, isin)).position.totalRealizedGain,
                  RealizedOf(isins \ {isin}))

\* C27: an asset whose FIFO current quantity is 0 contributes nothing to
\* getPortfolioSummary: its realized gains are not in totalRealizedGain or
\* totalGain and its fees are not in totalFeesAndCommissions, because the
\* summary folds only over the positions calculatePortfolioPositions keeps.
C27_ClosedAssetsLeftOut ==
    Summed =>
        LET s == portfolio.summary IN
        /\ \A i \in 1..Len(portfolio.positions) :
              portfolio.positions[i].isin \in HeldIsins
        /\ s.positionCount = Cardinality(HeldIsins)
        /\ s.totalRealizedGain = RealizedOf(HeldIsins)
        /\ s.totalGain = RAdd(RealizedOf(HeldIsins), s.totalUnrealizedGain)
        /\ s.totalFeesAndCommissions = R(FeesOf(HeldIsins))

\* one asset is held and another was sold off at a gain or loss: the summary
\* has the fees of the first alone
C27_Witness ==
    /\ Summed
    /\ HeldIsins # {}
    /\ ClosedIsins # {}
    /\ RealizedOf(ClosedIsins) # RZero
    /\ FeesOf(ClosedIsins) > 0
    /\ portfolio.summary.positionCount = 1
    /\ portfolio.summary.totalFeesAndCommissions = R(FeesOf(HeldIsins))


----------------------------------------------------------------------------
\* the quantity the realized gains match against lot id, and for sell id
MatchedOfLot(gains, id) ==
    Sum([q \in 1..Len(gains) |->
            IF gains[q].buyTradeId = id THEN gains[q].quantity ELSE 0])
MatchedOfSell(gains, id) ==
    Sum([q \in 1..Len(gains) |->
            IF gains[q].sellTradeId = id THEN gains[q].quantity ELSE 0])

\* what is left of the lot of buy id in the result
LeftOfLot(lots, id) ==
    Sum([k \in 1..Len(lots) |->
            IF lots[k].tradeId = id THEN lots[k].remainingQuantity ELSE 0])

\* the part of the sell's fees and commission a realized gain was charged
AllocatedFees(gain) ==
    RSub(RSub(gain.grossProceeds, gain.costBasis), gain.realizedGain)
FeesChargedTo(gains, id) ==
    RSum([q \in 1..Len(gains) |->
            IF gains[q].sellTradeId = id THEN AllocatedFees(gains[q]) ELSE RZero])

\* C28: matching conserves quantity. For every buy lot L the quantities of the
\* realized gains with buyTradeId = L sum to L.originalQuantity -
\* L.remainingQuantity; for every sell S the quantities of the realized gains
\* with sellTradeId = S sum to S.quantity less its unmatched short remainder;
\* and the sell fees allocated to the gains of a fully matched sell add up to
\* its fees + commission.
C28_QuantityConserved ==
    Computed =>
        LET in == fifo.input
            gains == fifo.position.realizedGains
            lots == fifo.position.remainingLots
        IN  /\ \A b \in BuyIds(in) :
                  MatchedOfLot(gains, b) = in[b].quantity - LeftOfLot(lots, b)
            /\ \A s \in SellIds(in) :
                  /\ MatchedOfSell(gains, s) = in[s].quantity - Shortfall(in, s)
                  /\ Shortfall(in, s) = 0 =>
                        FeesChargedTo(gains, s) = R(in[s].fees + in[s].commission)
            /\ \A q \in 1..Len(gains) :
                  /\ gains[q].buyTradeId \in BuyIds(in)
                  /\ gains[q].sellTradeId \in SellIds(in)

\* a fully matched sell took all of one lot and part of the next
C28_Witness ==
    /\ Computed
    /\ \E s \in SellIds(fifo.input) :
          /\ Shortfall(fifo.input, s) = 0
          /\ Cardinality({q \in 1..Len(fifo.position.realizedGains) :
                             fifo.position.realizedGains[q].sellTradeId = s}) = 2
          /\ FeesChargedTo(fifo.position.realizedGains, s) # RZero
    /\ Len(fifo.position.remainingLots) = 1
    /\ fifo.position.remainingLots[1].remainingQuantity
          < fifo.position.remainingLots[1].originalQuantity

\* a sell was matched in part only: the rest of it is its short remainder
C28_PartlyMatched ==
    /\ Computed
    /\ \E s \in SellIds(fifo.input) :
          /\ Shortfall(fifo.input, s) > 0
          /\ MatchedOfSell(fifo.position.realizedGains, s) > 0


----------------------------------------------------------------------------
\* the indices of the positions held in a currency
HeldIn(ep, currency) == {i \in 1..Len(ep) : ep[i].currency = currency}

\* C29: the currency breakdown partitions the enriched positions. It has one
\* bucket per distinct currency; the position counts of the buckets sum to
\* positionCount, their invested amounts to totalInvested and their market
\* values to totalMarketValue; positionsWithoutPrices is the number of
\* positions that carry a priceError.
C29_BreakdownPartitions ==
    Summed =>
        LET s == portfolio.summary
            ep == portfolio.positions
            cb == portfolio.summary.currencyBreakdown
        IN  /\ {cb[b].currency : b \in 1..Len(cb)} = {ep[i].currency : i \in 1..Len(ep)}
            /\ \A b, c \in 1..Len(cb) : cb[b].currency = cb[c].currency => b = c
            /\ \A b \in 1..Len(cb) :
                  cb[b].positions = Cardinality(HeldIn(ep, cb[b].currency))
            /\ Sum([b \in 1..Len(cb) |-> cb[b].positions]) = s.positionCount
            /\ s.positionCount = Len(ep)
            /\ RSum([b \in 1..Len(cb) |-> cb[b].invested]) = s.totalInvested
            /\ RSum([b \in 1..Len(cb) |-> cb[b].marketValue]) = s.totalMarketValue
            /\ s.positionsWithoutPrices
                  = Cardinality({i \in 1..Len(ep) : ep[i].priceError # NoText})

\* two currencies are held, one position priced and the other not
C29_Witness ==
    /\ Summed
    /\ Len(portfolio.summary.currencyBreakdown) = 2
    /\ portfolio.summary.positionCount = 2
    /\ portfolio.summary.positionsWithoutPrices = 1
    /\ RLt(RZero, portfolio.summary.totalMarketValue)

\* two positions of one currency share a bucket
C29_SharedBucket ==
    /\ Summed
    /\ Len(portfolio.summary.currencyBreakdown) = 1
    /\ portfolio.summary.currencyBreakdown[1].positions = 2


----------------------------------------------------------------------------
\* the keys other than the one the call was made for, cached before or after
OtherKeys == (DOMAIN call.cacheBefore \cup DOMAIN cache) \ {CallKey}

\* C30: a getCurrentPrice call for key K changes no cache entry other than
\* K's: whether it hits, misses, evicts an expired entry or fails, the entries
\* (data and expiry) of every key that differs from K in identifier,
\* identifier type or currency are unchanged.
C30_OtherKeysUnchanged ==
    Single =>
        \A k \in OtherKeys :
            /\ k \in DOMAIN call.cacheBefore
            /\ k \in DOMAIN cache
            /\ cache[k] = call.cacheBefore[k]

\* the expired entry of the key was evicted and a fresh one written, and the
\* entry of another key, expired as well, is still there
C30_Witness ==
    /\ HadEntry
    /\ call.time > EntryBefore.expiresAt
    /\ call.response.success
    /\ cache[CallKey].timestamp = call.time
    /\ \E k \in OtherKeys :
          /\ k \in DOMAIN cache
          /\ call.time > cache[k].expiresAt

\* a hit, with the entry of another key beside it
C30_Hit ==
    /\ HadEntry
    /\ call.attempts = <<>>
    /\ OtherKeys # {}

\* a miss that no provider resolved, with the entry of another key there
C30_FailedMiss ==
    /\ Single
    /\ CallKey \notin DOMAIN call.cacheBefore
    /\ ~call.response.success
    /\ OtherKeys # {}

====
